---- MODULE Spec2Model ----
(***************************************************************************)
(* PmLogLib (webosce/pmloglib, src/PmLogLib.c): the process-shared         *)
(* registry of logging contexts.                                           *)
(*                                                                         *)
(* Every process owns a private copy of the template `defaultSet` and, on  *)
(* a successful attach, a mapping of the shared segment.  The advisory     *)
(* lock (lockf on one descriptor per process) is owned by a PROCESS.       *)
(* Each statement of the code that reads or writes registry memory is one  *)
(* step of the calling process; purely local computation is folded into    *)
(* the neighbouring step.                                                  *)
(*                                                                         *)
(* Scope: a process is one thread of control.  lockf fails only on a       *)
(* descriptor that was never opened (open failed in init_function); when   *)
(* the descriptor is open the call blocks until the lock is free and then  *)
(* succeeds.  Spec is the registry (attach, configuration load,            *)
(* PmLogGetContext, PmLogFindContext); SpecApi is the whole interface of   *)
(* the registry with no configuration files to read.                       *)
(***************************************************************************)
EXTENDS Integers, Sequences, FiniteSets, TLC

----------------------------------------------------------------------------
(* Bounds of the model *)

NumProcs == 2
\* PMLOG_MAX_NUM_CONTEXTS (PmLogLibPrv.h), scaled down
MaxUserContexts == 3
\* public calls made, over all processes: of the registry operations, and
\* of the whole interface
MaxCalls == 3
MaxApiCalls == 2
\* context entries of the configuration files read by one config load
MaxCfgEntries == 1

Procs == 1..NumProcs

----------------------------------------------------------------------------
(* Program constants *)

\* any value other than zero; the header that sets it is not part of src/
PMLOG_SIGNATURE == 1
ForeignSignature == PMLOG_SIGNATURE + 1

PMLOG_MAX_CONTEXT_NAME_LEN == 31

kPmLogLevel_None == -1
kPmLogLevel_Emergency == 0
kPmLogLevel_Alert == 1
kPmLogLevel_Critical == 2
kPmLogLevel_Error == 3
kPmLogLevel_Warning == 4
kPmLogLevel_Notice == 5
kPmLogLevel_Info == 6
kPmLogLevel_Debug == 7

kPmLogFlag_LogProcessIds == "LogProcessIds"
kPmLogFlag_LogThreadIds == "LogThreadIds"
kPmLogFlag_LogToConsole == "LogToConsole"
kPmLogFlag_Overridden == "Overridden"

\* C strings are sequences of characters
kPmLogGlobalContextName == <<"<", "g", "l", "o", "b", "a", "l", ">">>
kPmLogDefaultLibContextName ==
    <<"<", "d", "e", "f", "a", "u", "l", "t", "-", "l", "i", "b", ">">>

UpperCase == {"A", "B", "C", "D", "E", "F", "G", "H", "I", "J", "K", "L", "M",
              "N", "O", "P", "Q", "R", "S", "T", "U", "V", "W", "X", "Y", "Z"}
LowerCase == {"a", "b", "c", "d", "e", "f", "g", "h", "i", "j", "k", "l", "m",
              "n", "o", "p", "q", "r", "s", "t", "u", "v", "w", "x", "y", "z"}
DigitChars == {"0", "1", "2", "3", "4", "5", "6", "7", "8", "9"}

----------------------------------------------------------------------------
(* Inputs *)

NameA == <<"A">>
NameAB == <<"A", ".", "B">>
NameABC == <<"A", ".", "B", ".", "C">>

\* names accepted by PrvValidateContextName
ValidNameInputs == {NameA, NameAB, NameABC}
\* a name with a character outside the charset
InvalidNameInputs == {<<"A", " ">>}
NameInputs ==
    ValidNameInputs \cup InvalidNameInputs \cup {kPmLogDefaultLibContextName}

\* levels passed to PmLogSetContextLevel: none, err, and one out of range
LevelInputs == {kPmLogLevel_None, kPmLogLevel_Error, kPmLogLevel_Debug + 1}

\* context names, level strings and flag sets of a configuration entry
CfgNameInputs == {NameA}
CfgLevelStrInputs == {"debug", "bogus"}
CfgFlagInputs == {{}, {kPmLogFlag_LogToConsole}}

----------------------------------------------------------------------------
(* Data *)

\* PmLogContext (public) and PmLogContext_* (private) values of one process:
\* NULL, the global context, or user context i of the registry it uses
NullH == [kind |-> "null", i |-> 0]
GlobalH == [kind |-> "global", i |-> 0]
UserH(i) == [kind |-> "user", i |-> i]
Handles == {NullH, GlobalH} \cup {UserH(i) : i \in 0..(MaxUserContexts - 1)}

ZeroContext == [component |-> << >>, enabledLevel |-> 0, flags |-> {}]

\* a freshly created segment: shmget zero-fills it
ZeroGlobals ==
    [signature |-> 0,
     maxUserContexts |-> 0,
     numUserContexts |-> 0,
     contextLogging |-> FALSE,
     consoleConf |-> [stdErrMinLevel |-> 0, stdErrMaxLevel |-> 0,
                      stdOutMinLevel |-> 0, stdOutMaxLevel |-> 0],
     devMode |-> FALSE,
     globalContext |-> ZeroContext,
     userContexts |-> [i \in 0..(MaxUserContexts - 1) |-> ZeroContext]]

\* the in-process template
defaultSet ==
    [signature |-> PMLOG_SIGNATURE,
     maxUserContexts |-> MaxUserContexts,
     numUserContexts |-> 0,
     contextLogging |-> FALSE,
     consoleConf |-> [stdErrMinLevel |-> kPmLogLevel_Emergency,
                      stdErrMaxLevel |-> kPmLogLevel_Error,
                      stdOutMinLevel |-> kPmLogLevel_Warning,
                      stdOutMaxLevel |-> kPmLogLevel_Debug],
     devMode |-> TRUE,
     globalContext |-> [component |-> kPmLogGlobalContextName,
                        enabledLevel |-> kPmLogLevel_Info,
                        flags |-> {}],
     userContexts |-> [i \in 0..(MaxUserContexts - 1) |-> ZeroContext]]

\* registry 0 is the shared segment, registry p the defaultSet of process p
ShmId == 0
RegIds == {ShmId} \cup Procs

VARIABLES
    regs,               \* RegIds -> PmLogGlobals
    lockHeld,           \* the processes owning the lock on /dev/shm/pmloglib.lock
    lock_fd,            \* per process: TRUE iff lock_fd is an open descriptor
    gGlobalsP,          \* per process: "defaultSet", "shm" or "NULL"
    needInit,           \* per process
    libProcessContext,  \* per process: a handle (NullH is kPmLogDefaultContext)
    pc,                 \* per process: the statement it executes next
    fr,                 \* per process: arguments and locals of the call in progress
    result,             \* per process: what its call hands back, until it returns
    callsLeft,          \* public calls the processes may still make
    cfgLeft,            \* per process: configuration entries still to be read
    got,                \* history: <<registry, name, handle>> returned by PmLogGetContext
    errno,              \* per process: the C library's error number
    procOf,             \* per caller: the process it is a thread of
    sigmask             \* per caller: the signals its thread blocks

vars == <<regs, lockHeld, lock_fd, gGlobalsP, needInit, libProcessContext,
          pc, fr, result, callsLeft, cfgLeft, got, errno,
          procOf, sigmask>>

----------------------------------------------------------------------------
(* Pure helpers *)

Min(S) == CHOOSE x \in S : \A y \in S : x =< y

\* gGlobalContextP is assigned together with gGlobalsP and always matches it
RegOf(p) == IF gGlobalsP[p] = "shm" THEN ShmId ELSE p
G(p) == regs[RegOf(p)]

Ctx(g, h) == IF h.kind = "global" THEN g.globalContext ELSE g.userContexts[h.i]

SetCtx(g, h, c) ==
    IF h.kind = "global"
    THEN [g EXCEPT !.globalContext = c]
    ELSE [g EXCEPT !.userContexts[h.i] = c]

PrvExportContext(contextP) == contextP

PrvResolveContext(p, context) ==
    IF context = NullH
    THEN (IF gGlobalsP[p] = "NULL" THEN NullH ELSE GlobalH)
    ELSE context

\* faulty range test: one level past debug is taken for valid
PrvIsValidLevel_OffByOne(level) ==
    (level >= kPmLogLevel_Emergency) /\ (level =< kPmLogLevel_Debug + 1)

PrvIsValidLevel(level) ==
    (level >= kPmLogLevel_Emergency) /\ (level =< kPmLogLevel_Debug)

\* faulty length test: a name of PMLOG_MAX_CONTEXT_NAME_LEN characters is
\* rejected
PrvValidateContextName_OffByOne(contextName) ==
    IF contextName = kPmLogGlobalContextName THEN "None"
    ELSE IF contextName = kPmLogDefaultLibContextName THEN "None"
    ELSE IF Len(contextName) < 1 \/ Len(contextName) >= PMLOG_MAX_CONTEXT_NAME_LEN
         THEN "InvalidContextName"
    ELSE IF \A i \in 1..Len(contextName) :
                contextName[i] \in UpperCase \cup LowerCase \cup DigitChars
                                   \cup {".", "-", "_"}
         THEN "None"
    ELSE "InvalidContextName"

PrvValidateContextName(contextName) ==
    IF contextName = kPmLogGlobalContextName THEN "None"
    ELSE IF contextName = kPmLogDefaultLibContextName THEN "None"
    ELSE IF Len(contextName) < 1 \/ Len(contextName) > PMLOG_MAX_CONTEXT_NAME_LEN
         THEN "InvalidContextName"
    ELSE IF \A i \in 1..Len(contextName) :
                contextName[i] \in UpperCase \cup LowerCase \cup DigitChars
                                   \cup {".", "-", "_"}
         THEN "None"
    ELSE "InvalidContextName"

kLogLevelLabels ==
    << [s |-> "none", n |-> kPmLogLevel_None],
       [s |-> "emerg", n |-> kPmLogLevel_Emergency],
       [s |-> "alert", n |-> kPmLogLevel_Alert],
       [s |-> "crit", n |-> kPmLogLevel_Critical],
       [s |-> "err", n |-> kPmLogLevel_Error],
       [s |-> "warning", n |-> kPmLogLevel_Warning],
       [s |-> "notice", n |-> kPmLogLevel_Notice],
       [s |-> "info", n |-> kPmLogLevel_Info],
       [s |-> "debug", n |-> kPmLogLevel_Debug] >>

\* the index of the first table entry with label s, 0 when there is none
PrvLabelToInt(labels, s) ==
    LET hit == {k \in 1..Len(labels) : labels[k].s = s}
    IN IF hit = {} THEN 0 ELSE Min(hit)

\* [ok, level]
PrvParseConfigLevel(s) ==
    LET k == PrvLabelToInt(kLogLevelLabels, s)
    IN IF k # 0 THEN [ok |-> TRUE, level |-> kLogLevelLabels[k].n]
       ELSE [ok |-> FALSE, level |-> -1]


MyStrCpy(dstSize, src) ==
    IF Len(src) >= dstSize THEN SubSeq(src, 1, dstSize - 1) ELSE src

\* faulty scans: one stops before the last user context, one compares the
\* name with the global context only
ScanForName_SkipsLast(g, contextName) ==
    IF contextName = g.globalContext.component THEN GlobalH
    ELSE LET hit == {i \in 0..(g.numUserContexts - 2) :
                        g.userContexts[i].component = contextName}
         IN IF hit = {} THEN NullH ELSE UserH(Min(hit))

ScanForName_GlobalOnly(g, contextName) ==
    IF contextName = g.globalContext.component THEN GlobalH ELSE NullH

\* the name scan of PmLogGetContext: global context first (i = -1), then the
\* user contexts in order; the first match, NullH when there is none
ScanForName(g, contextName) ==
    IF contextName = g.globalContext.component THEN GlobalH
    ELSE LET hit == {i \in 0..(g.numUserContexts - 1) :
                        g.userContexts[i].component = contextName}
         IN IF hit = {} THEN NullH ELSE UserH(Min(hit))

\* faulty scan: stops before the last user context
FindScan_SkipsLast(g, contextName) ==
    IF contextName = g.globalContext.component THEN GlobalH
    ELSE LET hit == {i \in 0..(g.numUserContexts - 2) :
                        g.userContexts[i].component = contextName}
         IN IF hit = {} THEN NullH ELSE UserH(Min(hit))

\* the name scan of PmLogFindContext
FindScan(g, contextName) ==
    IF contextName = g.globalContext.component THEN GlobalH
    ELSE LET hit == {i \in 0..(g.numUserContexts - 1) :
                        g.userContexts[i].component = contextName}
         IN IF hit = {} THEN NullH ELSE UserH(Min(hit))

\* faulty capacity test: > for >=
TableFull_OffByOne(g) == g.numUserContexts > g.maxUserContexts

TableFull(g) == g.numUserContexts >= g.maxUserContexts

\* faulty slot choice: the last registered slot instead of the first free one
NewSlot_Last(g) == IF g.numUserContexts = 0 THEN 0 ELSE g.numUserContexts - 1

NewSlot(g) == g.numUserContexts

\* strrchr(parent, '.'): position of the last '.', 0 when there is none
LastDot(s) ==
    LET dots == {i \in 1..Len(s) : s[i] = "."}
    IN IF dots = {} THEN 0 ELSE CHOOSE i \in dots : \A j \in dots : j =< i

RECURSIVE AncestorDefaults(_, _)
AncestorDefaults(g, parent) ==
    IF LastDot(parent) = 0 THEN GlobalH
    ELSE LET trimmed == SubSeq(parent, 1, LastDot(parent) - 1)
             hit == {i \in 0..(g.numUserContexts - 1) :
                        g.userContexts[i].component = trimmed}
         IN IF hit # {} THEN UserH(Min(hit)) ELSE AncestorDefaults(g, trimmed)

\* faulty defaults: only the immediate parent is looked up
PrvGetContextDefaults_ParentOnly(g, contextName) ==
    IF LastDot(contextName) = 0 THEN GlobalH
    ELSE LET hit == {i \in 0..(g.numUserContexts - 1) :
                        g.userContexts[i].component =
                            SubSeq(contextName, 1, LastDot(contextName) - 1)}
         IN IF hit = {} THEN GlobalH ELSE UserH(Min(hit))

\* the context whose info PrvGetContextDefaults returns a pointer to
PrvGetContextDefaults(g, contextName) ==
    AncestorDefaults(g, MyStrCpy(PMLOG_MAX_CONTEXT_NAME_LEN + 1, contextName))

\* faulty initialisation: the library context is written but not counted
InitSharedMem_NoCount(d) ==
    [d EXCEPT !.userContexts[0] =
                  [component |-> MyStrCpy(PMLOG_MAX_CONTEXT_NAME_LEN + 1,
                                          kPmLogDefaultLibContextName),
                   enabledLevel |-> kPmLogLevel_Info,
                   flags |-> {}]]

\* first-time initialisation of the segment from the template d
InitSharedMem(d) ==
    [d EXCEPT !.numUserContexts = @ + 1,
              !.userContexts[0] =
                  [component |-> MyStrCpy(PMLOG_MAX_CONTEXT_NAME_LEN + 1,
                                          kPmLogDefaultLibContextName),
                   enabledLevel |-> kPmLogLevel_Info,
                   flags |-> {}]]

\* logErr of PmLogGetContext when it falls back to the global context
FallbackLogErr == "None"

\* the callers that are threads of the process of p
Threads(p) == {q \in Procs : procOf[q] = procOf[p]}

\* lockf(lock_fd, F_LOCK, 0) blocks while another process owns the lock; it
\* fails at once on a descriptor that was never opened, and the caller goes
\* on.  The lock belongs to the process: lockf succeeds at once for a thread
\* of the process that owns the lock, and the unlock by any thread releases
\* it
LockAcquirable(p) == ~lock_fd[p] \/ lockHeld \subseteq Threads(p)
AfterLock(p) == IF lock_fd[p] THEN lockHeld \cup {p} ELSE lockHeld
AfterUnlock(p) == IF lock_fd[p] THEN lockHeld \ Threads(p) ELSE lockHeld

\* cmd: PmLogPrvReadConfigs runs for the loadconf command (else for the
\* constructor); saved: the frame of the PrvLogWrite that took the command;
\* before: history, the state in which the command was taken
EmptyFrame ==
    [name |-> << >>, theContextP |-> NullH, cont |-> "idle",
     level |-> 0, flags |-> {}, arg |-> NullH, dev |-> FALSE,
     logErr |-> "None", context |-> NullH, args |-> [op |-> "none"],
     cmd |-> FALSE, saved |-> [op |-> "none"], before |-> [op |-> "none"],
     savedErrNo |-> 0]

\* the empty frame of the configuration loader that f belongs to
KeepCaller(f) ==
    [EmptyFrame EXCEPT !.cmd = f.cmd, !.saved = f.saved, !.before = f.before,
                       !.savedErrNo = f.savedErrNo]

NoResult ==
    [op |-> "none", name |-> << >>, err |-> "None", handle |-> NullH, n |-> 0]

Res(op, name, err, handle) ==
    [op |-> op, name |-> name, err |-> err, handle |-> handle, n |-> 0]

\* result with the outcome r handed to the caller p
Ret(p, r) == [result EXCEPT ![p] = r]

\* the frame of the caller when PmLogGetContext returns r to it: a public
\* call keeps nothing, the configuration loader keeps logErr and context
ReturnFrame(f, r) ==
    IF f.cont = "idle" THEN EmptyFrame
    ELSE [KeepCaller(f) EXCEPT !.level = f.level, !.flags = f.flags,
                               !.name = f.name, !.logErr = r.err,
                               !.context = r.handle, !.args = f.args]

----------------------------------------------------------------------------
(* Initial state: every process is about to run the library constructor;   *)
(* the segment does not exist yet (zero-filled on creation) or was left by *)
(* a foreign layout.                                                       *)

InitWith(budget) ==
    /\ \E sig \in {0, ForeignSignature} :
          regs = [r \in RegIds |->
                    IF r = ShmId THEN [ZeroGlobals EXCEPT !.signature = sig]
                    ELSE defaultSet]
    /\ lockHeld = {}
    /\ lock_fd = [p \in Procs |-> FALSE]
    /\ gGlobalsP = [p \in Procs |-> "defaultSet"]
    /\ needInit = [p \in Procs |-> FALSE]
    /\ libProcessContext = [p \in Procs |-> NullH]
    /\ pc = [p \in Procs |-> "init_open"]
    /\ fr = [p \in Procs |-> EmptyFrame]
    /\ result = [p \in Procs |-> NoResult]
    /\ callsLeft = budget
    /\ cfgLeft = [p \in Procs |-> 0]
    /\ got = {}
    /\ errno = [p \in Procs |-> 0]
    /\ procOf = [p \in Procs |-> p]
    /\ sigmask = [p \in Procs |-> {}]

Init == InitWith(MaxCalls)
InitApi == InitWith(MaxApiCalls)

----------------------------------------------------------------------------
(* init_function *)

\* open("/dev/shm/pmloglib.lock"): on failure the constructor returns
InitOpen(p) ==
    /\ pc[p] = "init_open"
    /\ \E ok \in BOOLEAN :
          /\ lock_fd' = [lock_fd EXCEPT ![p] = ok]
          /\ pc' = [pc EXCEPT ![p] = IF ok THEN "init_ftok" ELSE "idle"]
    /\ UNCHANGED <<regs, lockHeld, gGlobalsP, needInit, libProcessContext,
                   fr, result, callsLeft, cfgLeft, got, errno,
                   procOf, sigmask>>

\* ftok(libFilePath, 'A'): on failure the constructor returns
InitFtok(p) ==
    /\ pc[p] = "init_ftok"
    /\ \E ok \in BOOLEAN :
          pc' = [pc EXCEPT ![p] = IF ok THEN "init_lock" ELSE "idle"]
    /\ UNCHANGED <<regs, lockHeld, lock_fd, gGlobalsP, needInit,
                   libProcessContext, fr, result, callsLeft, cfgLeft, got,
                   errno, procOf, sigmask>>

InitLock(p) ==
    /\ pc[p] = "init_lock"
    /\ LockAcquirable(p)
    /\ lockHeld' = AfterLock(p)
    /\ pc' = [pc EXCEPT ![p] = "init_shm"]
    /\ UNCHANGED <<regs, lock_fd, gGlobalsP, needInit, libProcessContext,
                   fr, result, callsLeft, cfgLeft, got, errno,
                   procOf, sigmask>>

\* shmget / shmat: on failure the constructor returns, the lock still held
InitShm(p) ==
    /\ pc[p] = "init_shm"
    /\ \E ok \in BOOLEAN :
          pc' = [pc EXCEPT ![p] = IF ok THEN "init_sig" ELSE "idle"]
    /\ UNCHANGED <<regs, lockHeld, lock_fd, gGlobalsP, needInit,
                   libProcessContext, fr, result, callsLeft, cfgLeft, got,
                   errno, procOf, sigmask>>

\* faulty header test: every attach takes the first-time branch
SignatureBranch_AlwaysInit(signature) == "initialize"

\* faulty header test: a foreign header is taken for a fresh segment
SignatureBranch_InitOnForeign(signature) ==
    IF signature = PMLOG_SIGNATURE THEN "access" ELSE "initialize"

\* the branch the constructor takes on the header of the mapped segment
SignatureBranch(signature) ==
    IF signature = 0 THEN "initialize"
    ELSE IF signature = PMLOG_SIGNATURE THEN "access"
    ELSE "unrecognized"

\* map the segment and use its header as the initialisation flag
InitSignature(p) ==
    /\ pc[p] = "init_sig"
    /\ IF SignatureBranch(regs[ShmId].signature) = "initialize"
       THEN /\ regs' = [regs EXCEPT ![ShmId] = InitSharedMem(regs[p])]
            /\ needInit' = [needInit EXCEPT ![p] = TRUE]
            /\ gGlobalsP' = [gGlobalsP EXCEPT ![p] = "shm"]
       ELSE IF SignatureBranch(regs[ShmId].signature) = "access"
       THEN /\ gGlobalsP' = [gGlobalsP EXCEPT ![p] = "shm"]
            /\ UNCHANGED <<regs, needInit>>
       ELSE /\ gGlobalsP' = [gGlobalsP EXCEPT ![p] = "NULL"]
            /\ UNCHANGED <<regs, needInit>>
    /\ pc' = [pc EXCEPT ![p] = "init_unlock"]
    /\ UNCHANGED <<lockHeld, lock_fd, libProcessContext, fr, result, callsLeft,
                   cfgLeft, got, errno, procOf, sigmask>>

\* release the lock; the first-time configuration load follows if needInit
InitUnlock(p) ==
    /\ pc[p] = "init_unlock"
    /\ lockHeld' = AfterUnlock(p)
    /\ pc' = [pc EXCEPT ![p] = IF needInit[p] THEN "cfg_idle" ELSE "idle"]
    /\ cfgLeft' = [cfgLeft EXCEPT ![p] = IF needInit[p] THEN MaxCfgEntries ELSE 0]
    /\ UNCHANGED <<regs, lock_fd, gGlobalsP, needInit, libProcessContext,
                   fr, result, callsLeft, got, errno, procOf, sigmask>>


\* an access through the NULL gGlobalsP ends the process (SIGSEGV); the
\* kernel drops its lock
Crash(p, op) ==
    /\ pc' = [pc EXCEPT ![p] = "crashed"]
    /\ lockHeld' = AfterUnlock(p)
    /\ fr' = [fr EXCEPT ![p] = EmptyFrame]
    /\ result' = Ret(p, [NoResult EXCEPT !.op = op, !.err = "SIGSEGV"])

\* a public call that takes no lock hands r back to p
Complete(p, r) ==
    /\ pc' = [pc EXCEPT ![p] = "ret"]
    /\ result' = Ret(p, r)

\* the caller has looked at what the call handed back
Return(p) ==
    /\ pc[p] = "ret"
    /\ pc' = [pc EXCEPT ![p] = "idle"]
    /\ result' = Ret(p, NoResult)
    /\ UNCHANGED <<regs, lockHeld, lock_fd, gGlobalsP, needInit,
                   libProcessContext, fr, callsLeft, cfgLeft, got, errno,
                   procOf, sigmask>>

CanCall(p) == pc[p] = "idle" /\ callsLeft > 0

----------------------------------------------------------------------------
(* PmLogGetContext *)

\* PmLogGetContext called with frame f returns r: to the public caller, or
\* to the configuration loader, which goes on at f.cont
GetContextReturn(p, f, r) ==
    IF f.cont = "idle"
    THEN /\ pc' = [pc EXCEPT ![p] = "ret"]
         /\ fr' = [fr EXCEPT ![p] = EmptyFrame]
         /\ result' = Ret(p, r)
    ELSE /\ pc' = [pc EXCEPT ![p] = f.cont]
         /\ fr' = [fr EXCEPT ![p] = ReturnFrame(f, r)]
         /\ UNCHANGED result

\* entry of PmLogGetContext(contextName # NULL, &context) made with frame f:
\* the checks before the lock
GetContextEntry(p, contextName, f) ==
    IF gGlobalsP[p] = "NULL"
    THEN GetContextReturn(p, [f EXCEPT !.name = contextName],
                          Res("GetContext", contextName, "Unknown", NullH))
    ELSE IF PrvValidateContextName(contextName) # "None"
    THEN GetContextReturn(p, [f EXCEPT !.name = contextName],
                          Res("GetContext", contextName,
                              PrvValidateContextName(contextName), NullH))
    ELSE /\ pc' = [pc EXCEPT ![p] = "gc_lock"]
         /\ fr' = [fr EXCEPT ![p] = [f EXCEPT !.name = contextName,
                                              !.theContextP = NullH]]
         /\ UNCHANGED result

CallGetContext(p, contextName) ==
    /\ CanCall(p)
    /\ callsLeft' = callsLeft - 1
    /\ GetContextEntry(p, contextName, EmptyFrame)
    /\ UNCHANGED <<regs, lockHeld, lock_fd, gGlobalsP, needInit,
                   libProcessContext, cfgLeft, got, errno, procOf, sigmask>>

\* PmLogGetContext(NULL, &context)
CallGetContextNull(p) ==
    /\ CanCall(p)
    /\ callsLeft' = callsLeft - 1
    /\ Complete(p, IF gGlobalsP[p] = "NULL"
                   THEN [NoResult EXCEPT !.op = "GetContextNull", !.err = "Unknown"]
                   ELSE [NoResult EXCEPT !.op = "GetContextNull",
                                         !.handle = PrvExportContext(GlobalH)])
    /\ UNCHANGED <<regs, lockHeld, lock_fd, gGlobalsP, needInit,
                   libProcessContext, fr, cfgLeft, got, errno,
                   procOf, sigmask>>

GcLock(p) ==
    /\ pc[p] = "gc_lock"
    /\ LockAcquirable(p)
    /\ lockHeld' = AfterLock(p)
    /\ pc' = [pc EXCEPT ![p] = "gc_scan"]
    /\ UNCHANGED <<regs, lock_fd, gGlobalsP, needInit, libProcessContext,
                   fr, result, callsLeft, cfgLeft, got, errno,
                   procOf, sigmask>>

\* look for a match on the context name, then the capacity test
GcScan(p) ==
    /\ pc[p] = "gc_scan"
    /\ LET found == ScanForName(G(p), fr[p].name)
       IN /\ fr' = [fr EXCEPT ![p].theContextP = found]
          /\ pc' = [pc EXCEPT ![p] =
                 IF found # NullH \/ TableFull(G(p)) THEN "gc_unlock" ELSE "gc_add"]
    /\ UNCHANGED <<regs, lockHeld, lock_fd, gGlobalsP, needInit,
                   libProcessContext, result, callsLeft, cfgLeft, got,
                   errno, procOf, sigmask>>

\* theContextP = &userContexts[numUserContexts]; numUserContexts++
GcAdd(p) ==
    /\ pc[p] = "gc_add"
    /\ fr' = [fr EXCEPT ![p].theContextP = UserH(NewSlot(G(p)))]
    /\ regs' = [regs EXCEPT ![RegOf(p)].numUserContexts = @ + 1]
    /\ pc' = [pc EXCEPT ![p] = "gc_name"]
    /\ UNCHANGED <<lockHeld, lock_fd, gGlobalsP, needInit, libProcessContext,
                   result, callsLeft, cfgLeft, got, errno, procOf, sigmask>>

\* mystrcpy(theContextP->component, ..., contextName)
GcName(p) ==
    /\ pc[p] = "gc_name"
    /\ regs' = [regs EXCEPT
                   ![RegOf(p)].userContexts[fr[p].theContextP.i].component =
                       MyStrCpy(PMLOG_MAX_CONTEXT_NAME_LEN + 1, fr[p].name)]
    /\ pc' = [pc EXCEPT ![p] = "gc_defaults"]
    /\ UNCHANGED <<lockHeld, lock_fd, gGlobalsP, needInit, libProcessContext,
                   fr, result, callsLeft, cfgLeft, got, errno,
                   procOf, sigmask>>

\* copy the level and the flags of the defaults
GcDefaults(p) ==
    /\ pc[p] = "gc_defaults"
    /\ LET defaultsP == PrvGetContextDefaults(G(p), fr[p].name)
           d == Ctx(G(p), defaultsP)
       IN regs' = [regs EXCEPT
                      ![RegOf(p)].userContexts[fr[p].theContextP.i].enabledLevel =
                          d.enabledLevel,
                      ![RegOf(p)].userContexts[fr[p].theContextP.i].flags =
                          d.flags]
    /\ pc' = [pc EXCEPT ![p] = "gc_unlock"]
    /\ UNCHANGED <<lockHeld, lock_fd, gGlobalsP, needInit, libProcessContext,
                   fr, result, callsLeft, cfgLeft, got, errno,
                   procOf, sigmask>>

\* faulty fallback: *pContext is left NULL when nothing was found or created
GetContextResult_NullOnFallback(f) ==
    IF f.theContextP # NullH
    THEN Res("GetContext", f.name, "None", PrvExportContext(f.theContextP))
    ELSE Res("GetContext", f.name, FallbackLogErr, NullH)

\* what PmLogGetContext hands back after the unlock
GetContextResult(f) ==
    IF f.theContextP # NullH
    THEN Res("GetContext", f.name, "None", PrvExportContext(f.theContextP))
    ELSE Res("GetContext", f.name, FallbackLogErr, PrvExportContext(GlobalH))

\* release the lock and return
GcUnlock(p) ==
    /\ pc[p] = "gc_unlock"
    /\ lockHeld' = AfterUnlock(p)
    /\ got' = got \cup {<<RegOf(p), fr[p].name, GetContextResult(fr[p]).handle>>}
    /\ GetContextReturn(p, fr[p], GetContextResult(fr[p]))
    /\ UNCHANGED <<regs, lock_fd, gGlobalsP, needInit, libProcessContext,
                   callsLeft, cfgLeft, errno, procOf, sigmask>>

----------------------------------------------------------------------------
(* PmLogFindContext *)

CallFindContext(p, contextName) ==
    /\ CanCall(p)
    /\ callsLeft' = callsLeft - 1
    /\ IF gGlobalsP[p] = "NULL"
       THEN /\ Complete(p, Res("FindContext", contextName, "Unknown", NullH))
            /\ UNCHANGED fr
       ELSE IF PrvValidateContextName(contextName) # "None"
       THEN /\ Complete(p, Res("FindContext", contextName,
                               PrvValidateContextName(contextName), NullH))
            /\ UNCHANGED fr
       ELSE /\ pc' = [pc EXCEPT ![p] = "fc_lock"]
            /\ fr' = [fr EXCEPT ![p] = [EmptyFrame EXCEPT !.name = contextName]]
            /\ UNCHANGED result
    /\ UNCHANGED <<regs, lockHeld, lock_fd, gGlobalsP, needInit,
                   libProcessContext, cfgLeft, got, errno, procOf, sigmask>>

FcLock(p) ==
    /\ pc[p] = "fc_lock"
    /\ LockAcquirable(p)
    /\ lockHeld' = AfterLock(p)
    /\ pc' = [pc EXCEPT ![p] = "fc_scan"]
    /\ UNCHANGED <<regs, lock_fd, gGlobalsP, needInit, libProcessContext,
                   fr, result, callsLeft, cfgLeft, got, errno,
                   procOf, sigmask>>

FcScan(p) ==
    /\ pc[p] = "fc_scan"
    /\ fr' = [fr EXCEPT ![p].theContextP = FindScan(G(p), fr[p].name)]
    /\ pc' = [pc EXCEPT ![p] = "fc_unlock"]
    /\ UNCHANGED <<regs, lockHeld, lock_fd, gGlobalsP, needInit,
                   libProcessContext, result, callsLeft, cfgLeft, got,
                   errno, procOf, sigmask>>

FcUnlock(p) ==
    /\ pc[p] = "fc_unlock"
    /\ lockHeld' = AfterUnlock(p)
    /\ Complete(p, IF fr[p].theContextP # NullH
                   THEN Res("FindContext", fr[p].name, "None",
                            PrvExportContext(fr[p].theContextP))
                   ELSE Res("FindContext", fr[p].name, "ContextNotFound", NullH))
    /\ fr' = [fr EXCEPT ![p] = EmptyFrame]
    /\ UNCHANGED <<regs, lock_fd, gGlobalsP, needInit, libProcessContext,
                   callsLeft, cfgLeft, got, errno, procOf, sigmask>>


----------------------------------------------------------------------------
(* Calls that take no lock *)

\* the handles a caller passes: NULL (the default context), and what
\* PmLogGetIndContext hands out for the registry of the caller
HeldHandles(p) ==
    IF gGlobalsP[p] = "NULL" THEN {NullH}
    ELSE {NullH, GlobalH} \cup {UserH(i) : i \in 0..(G(p).numUserContexts - 1)}

IndexInputs == (0 - 1)..(MaxUserContexts + 1)

PmLogGetNumContexts(p) ==
    /\ CanCall(p)
    /\ callsLeft' = callsLeft - 1
    /\ Complete(p, IF gGlobalsP[p] = "NULL"
                   THEN [NoResult EXCEPT !.op = "GetNumContexts", !.err = "Unknown"]
                   ELSE [NoResult EXCEPT !.op = "GetNumContexts",
                                         !.n = 1 + G(p).numUserContexts])
    /\ UNCHANGED <<regs, lockHeld, lock_fd, gGlobalsP, needInit,
                   libProcessContext, fr, cfgLeft, got, errno,
                   procOf, sigmask>>

\* faulty range test: an index above the count yields the last context
GetIndContextResult_Clamped(g, contextIndex) ==
    IF contextIndex < 0
    THEN [NoResult EXCEPT !.op = "GetIndContext", !.err = "InvalidContextIndex",
                          !.n = contextIndex]
    ELSE [NoResult EXCEPT !.op = "GetIndContext", !.n = contextIndex,
                          !.handle = PrvExportContext(
                              IF contextIndex = 0 \/ g.numUserContexts = 0
                              THEN GlobalH
                              ELSE IF contextIndex > g.numUserContexts
                              THEN UserH(g.numUserContexts - 1)
                              ELSE UserH(contextIndex - 1))]

\* what PmLogGetIndContext hands back from the registry g
GetIndContextResult(g, contextIndex) ==
    IF (contextIndex < 0) \/ (contextIndex > g.numUserContexts)
    THEN [NoResult EXCEPT !.op = "GetIndContext", !.err = "InvalidContextIndex",
                          !.n = contextIndex]
    ELSE [NoResult EXCEPT !.op = "GetIndContext", !.n = contextIndex,
                          !.handle = PrvExportContext(
                              IF contextIndex = 0 THEN GlobalH
                              ELSE UserH(contextIndex - 1))]

\* a negative index is refused first; otherwise gGlobalsP->numUserContexts
\* is read without testing gGlobalsP: through NULL the read ends the process
\* or yields any count
PmLogGetIndContext(p, contextIndex) ==
    /\ CanCall(p)
    /\ callsLeft' = callsLeft - 1
    /\ IF gGlobalsP[p] = "NULL" /\ contextIndex >= 0
       THEN \/ Crash(p, "GetIndContext")
            \/ /\ \E num \in {0, MaxUserContexts + 1} :
                     Complete(p, GetIndContextResult(
                                     [numUserContexts |-> num], contextIndex))
               /\ UNCHANGED <<fr, lockHeld>>
       ELSE /\ Complete(p, GetIndContextResult(G(p), contextIndex))
            /\ UNCHANGED <<fr, lockHeld>>
    /\ UNCHANGED <<regs, lock_fd, gGlobalsP, needInit, libProcessContext,
                   cfgLeft, got, errno, procOf, sigmask>>

\* [err, regs] of PmLogSetContextLevel(context, level) called by p
SetContextLevelOutcome(p, context, level) ==
    LET contextP == PrvResolveContext(p, context)
    IN IF contextP = NullH
       THEN [err |-> "InvalidContext", regs |-> regs]
       ELSE IF (level # kPmLogLevel_None) /\ ~PrvIsValidLevel(level)
       THEN [err |-> "InvalidLevel", regs |-> regs]
       ELSE [err |-> "None",
             regs |-> [regs EXCEPT ![RegOf(p)] =
                          SetCtx(@, contextP,
                                 [Ctx(@, contextP) EXCEPT !.enabledLevel = level])]]

PmLogSetContextLevel(p, context, level) ==
    /\ CanCall(p)
    /\ callsLeft' = callsLeft - 1
    /\ LET o == SetContextLevelOutcome(p, context, level)
       IN /\ regs' = o.regs
          /\ Complete(p, [NoResult EXCEPT !.op = "SetContextLevel", !.err = o.err,
                                          !.handle = context, !.n = level])
    /\ UNCHANGED <<lockHeld, lock_fd, gGlobalsP, needInit, libProcessContext,
                   fr, cfgLeft, got, errno, procOf, sigmask>>

PmLogGetContextLevel(p, context) ==
    /\ CanCall(p)
    /\ callsLeft' = callsLeft - 1
    /\ LET contextP == PrvResolveContext(p, context)
       IN Complete(p, IF contextP = NullH
                      THEN [NoResult EXCEPT !.op = "GetContextLevel",
                                            !.err = "InvalidContext",
                                            !.n = kPmLogLevel_Debug]
                      ELSE [NoResult EXCEPT !.op = "GetContextLevel",
                                            !.handle = context,
                                            !.n = Ctx(G(p), contextP).enabledLevel])
    /\ UNCHANGED <<regs, lockHeld, lock_fd, gGlobalsP, needInit,
                   libProcessContext, fr, cfgLeft, got, errno,
                   procOf, sigmask>>

\* computes &gGlobalsP->userContexts[0] when no library context was set
PmLogGetLibContext(p) ==
    /\ CanCall(p)
    /\ callsLeft' = callsLeft - 1
    /\ Complete(p, [NoResult EXCEPT !.op = "GetLibContext",
                                    !.handle = IF libProcessContext[p] = NullH
                                               THEN PrvExportContext(UserH(0))
                                               ELSE libProcessContext[p]])
    /\ UNCHANGED <<regs, lockHeld, lock_fd, gGlobalsP, needInit,
                   libProcessContext, fr, cfgLeft, got, errno,
                   procOf, sigmask>>

----------------------------------------------------------------------------
(* PmLogSetLibContext *)

\* defined in the source: the checking PmLogSetLibContext is the one built
VALIDATE_INCOMING_LIBPROCESSCONTEXT == TRUE

CallSetLibContext(p, libContext) ==
    /\ CanCall(p)
    /\ callsLeft' = callsLeft - 1
    /\ IF ~VALIDATE_INCOMING_LIBPROCESSCONTEXT
       THEN /\ Complete(p, [NoResult EXCEPT !.op = "SetLibContext",
                                            !.handle = libContext])
            /\ libProcessContext' = [libProcessContext EXCEPT ![p] = libContext]
            /\ UNCHANGED fr
       ELSE IF libContext = NullH
       THEN /\ Complete(p, [NoResult EXCEPT !.op = "SetLibContext",
                                            !.err = "Rejected"])
            /\ UNCHANGED <<fr, libProcessContext>>
       ELSE /\ pc' = [pc EXCEPT ![p] = "sl_lock"]
            /\ fr' = [fr EXCEPT ![p] = [EmptyFrame EXCEPT !.arg = libContext]]
            /\ UNCHANGED <<result, libProcessContext>>
    /\ UNCHANGED <<regs, lockHeld, lock_fd, gGlobalsP, needInit, cfgLeft, got,
                   errno, procOf, sigmask>>

SlLock(p) ==
    /\ pc[p] = "sl_lock"
    /\ LockAcquirable(p)
    /\ lockHeld' = AfterLock(p)
    /\ pc' = [pc EXCEPT ![p] = "sl_scan"]
    /\ UNCHANGED <<regs, lock_fd, gGlobalsP, needInit, libProcessContext,
                   fr, result, callsLeft, cfgLeft, got, errno,
                   procOf, sigmask>>

\* faulty scan: every slot of the table is compared, registered or not
LibContextFound_AnySlot(g, libContext) ==
    \/ PrvExportContext(GlobalH) = libContext
    \/ \E i \in 0..(MaxUserContexts - 1) : PrvExportContext(UserH(i)) = libContext

\* TRUE iff libContext is the global context or a registered user context
LibContextFound(g, libContext) ==
    \/ PrvExportContext(GlobalH) = libContext
    \/ \E i \in 0..(g.numUserContexts - 1) : PrvExportContext(UserH(i)) = libContext

\* the scan reads gGlobalsP->numUserContexts without testing gGlobalsP:
\* through NULL the read ends the process or the scan goes either way
SlScan(p) ==
    /\ pc[p] = "sl_scan"
    /\ IF gGlobalsP[p] = "NULL"
       THEN \/ Crash(p, "SetLibContext")
            \/ /\ \E found \in BOOLEAN : fr' = [fr EXCEPT ![p].dev = ~found]
               /\ pc' = [pc EXCEPT ![p] = "sl_unlock"]
               /\ UNCHANGED <<lockHeld, result>>
       ELSE /\ fr' = [fr EXCEPT ![p].dev = ~LibContextFound(G(p), fr[p].arg)]
            /\ pc' = [pc EXCEPT ![p] = "sl_unlock"]
            /\ UNCHANGED <<lockHeld, result>>
    /\ UNCHANGED <<regs, lock_fd, gGlobalsP, needInit, libProcessContext,
                   callsLeft, cfgLeft, got, errno, procOf, sigmask>>

SlUnlock(p) ==
    /\ pc[p] = "sl_unlock"
    /\ lockHeld' = AfterUnlock(p)
    /\ IF fr[p].dev
       THEN /\ Complete(p, [NoResult EXCEPT !.op = "SetLibContext",
                                            !.err = "Rejected",
                                            !.handle = fr[p].arg])
            /\ UNCHANGED libProcessContext
       ELSE /\ Complete(p, [NoResult EXCEPT !.op = "SetLibContext",
                                            !.handle = fr[p].arg])
            /\ libProcessContext' = [libProcessContext EXCEPT ![p] = fr[p].arg]
    /\ fr' = [fr EXCEPT ![p] = EmptyFrame]
    /\ UNCHANGED <<regs, lock_fd, gGlobalsP, needInit, callsLeft, cfgLeft, got,
                   errno, procOf, sigmask>>

----------------------------------------------------------------------------
(* PmLogSetDevMode *)

CallSetDevMode(p, isDevMode) ==
    /\ CanCall(p)
    /\ callsLeft' = callsLeft - 1
    /\ pc' = [pc EXCEPT ![p] = "dm_lock"]
    /\ fr' = [fr EXCEPT ![p] = [EmptyFrame EXCEPT !.dev = isDevMode]]
    /\ UNCHANGED <<regs, lockHeld, lock_fd, gGlobalsP, needInit,
                   libProcessContext, result, cfgLeft, got, errno,
                   procOf, sigmask>>

DmLock(p) ==
    /\ pc[p] = "dm_lock"
    /\ LockAcquirable(p)
    /\ lockHeld' = AfterLock(p)
    /\ pc' = [pc EXCEPT ![p] = "dm_write"]
    /\ UNCHANGED <<regs, lock_fd, gGlobalsP, needInit, libProcessContext,
                   fr, result, callsLeft, cfgLeft, got, errno,
                   procOf, sigmask>>

\* gGlobalsP->devMode = isDevMode, without testing gGlobalsP: through NULL
\* the write ends the process or lands outside the registries
DmWrite(p) ==
    /\ pc[p] = "dm_write"
    /\ IF gGlobalsP[p] = "NULL"
       THEN /\ \/ Crash(p, "SetDevMode")
               \/ /\ pc' = [pc EXCEPT ![p] = "dm_unlock"]
                  /\ UNCHANGED <<lockHeld, fr, result>>
            /\ UNCHANGED regs
       ELSE /\ regs' = [regs EXCEPT ![RegOf(p)].devMode = fr[p].dev]
            /\ pc' = [pc EXCEPT ![p] = "dm_unlock"]
            /\ UNCHANGED <<lockHeld, fr, result>>
    /\ UNCHANGED <<lock_fd, gGlobalsP, needInit, libProcessContext,
                   callsLeft, cfgLeft, got, errno, procOf, sigmask>>

DmUnlock(p) ==
    /\ pc[p] = "dm_unlock"
    /\ lockHeld' = AfterUnlock(p)
    /\ Complete(p, [NoResult EXCEPT !.op = "SetDevMode"])
    /\ fr' = [fr EXCEPT ![p] = EmptyFrame]
    /\ UNCHANGED <<regs, lock_fd, gGlobalsP, needInit, libProcessContext,
                   callsLeft, cfgLeft, got, errno, procOf, sigmask>>

----------------------------------------------------------------------------
(* PmLogPrvReadConfigs(parse_json_file): the context entries of the files  *)
(* are the input; each is PrvInitContext followed by parse_config_flags.   *)

PrvSetFlag(flags, flagValue, set) ==
    IF set THEN flags \cup flagValue ELSE flags \ flagValue

\* the flags PrvSetContextFlag leaves in a context holding `flags`
PrvSetContextFlag(flags, flag, set) ==
    PrvSetFlag(PrvSetFlag(flags, flag, set), {kPmLogFlag_Overridden}, TRUE)

\* PrvInitContext: parse the level, then PmLogGetContext(contextName)
CfgEntry(p, contextName, levelStr, flags) ==
    /\ pc[p] = "cfg_idle"
    /\ cfgLeft[p] > 0
    /\ cfgLeft' = [cfgLeft EXCEPT ![p] = @ - 1]
    /\ LET parsed == PrvParseConfigLevel(levelStr)
       IN IF ~parsed.ok
          THEN UNCHANGED <<pc, fr, result>>
          ELSE GetContextEntry(p, contextName,
                               [KeepCaller(fr[p]) EXCEPT
                                    !.cont = "cfg_level",
                                    !.level = parsed.level,
                                    !.flags = flags])
    /\ UNCHANGED <<regs, lockHeld, lock_fd, gGlobalsP, needInit,
                   libProcessContext, callsLeft, got, errno, procOf, sigmask>>

\* PrvInitContext: PmLogSetContextLevel(context, level)
CfgSetLevel(p) ==
    /\ pc[p] = "cfg_level"
    /\ IF fr[p].logErr # "None"
       THEN /\ pc' = [pc EXCEPT ![p] = "cfg_idle"]
            /\ fr' = [fr EXCEPT ![p] = KeepCaller(@)]
            /\ UNCHANGED regs
       ELSE LET o == SetContextLevelOutcome(p, fr[p].context, fr[p].level)
            IN /\ regs' = o.regs
               /\ pc' = [pc EXCEPT ![p] = IF o.err = "None" THEN "cfg_flags"
                                          ELSE "cfg_idle"]
               /\ fr' = [fr EXCEPT ![p] = IF o.err = "None" THEN @
                                          ELSE KeepCaller(@)]
    /\ UNCHANGED <<lockHeld, lock_fd, gGlobalsP, needInit, libProcessContext,
                   result, callsLeft, cfgLeft, got, errno, procOf, sigmask>>

\* PrvInitContext: contextP->info.flags = gGlobalContextP->info.flags; then
\* parse_config_flags calls PmLogGetContext(context_name)
CfgInitFlags(p) ==
    /\ pc[p] = "cfg_flags"
    /\ LET contextP == PrvResolveContext(p, fr[p].context)
       IN regs' = [regs EXCEPT ![RegOf(p)] =
                      SetCtx(@, contextP,
                             [Ctx(@, contextP) EXCEPT
                                 !.flags = G(p).globalContext.flags])]
    /\ GetContextEntry(p, fr[p].name,
                       [KeepCaller(fr[p]) EXCEPT !.cont = "cfg_setflag",
                                                 !.flags = fr[p].flags])
    /\ UNCHANGED <<lockHeld, lock_fd, gGlobalsP, needInit, libProcessContext,
                   callsLeft, cfgLeft, got, errno, procOf, sigmask>>

\* parse_config_flags: PrvSetContextFlag(context_ptr, flags, true) if any flag
CfgSetFlag(p) ==
    /\ pc[p] = "cfg_setflag"
    /\ IF fr[p].logErr # "None" \/ fr[p].flags = {}
       THEN UNCHANGED regs
       ELSE LET context_ptr == PrvResolveContext(p, fr[p].context)
            IN regs' = [regs EXCEPT ![RegOf(p)] =
                           SetCtx(@, context_ptr,
                                  [Ctx(@, context_ptr) EXCEPT !.flags =
                                      PrvSetContextFlag(@, fr[p].flags, TRUE)])]
    /\ pc' = [pc EXCEPT ![p] = "cfg_idle"]
    /\ fr' = [fr EXCEPT ![p] = KeepCaller(@)]
    /\ UNCHANGED <<lockHeld, lock_fd, gGlobalsP, needInit, libProcessContext,
                   result, callsLeft, cfgLeft, got, errno, procOf, sigmask>>

\* PmLogPrvReadConfigs returns, to the constructor or to HandleLogLibCommand
CfgDone(p) ==
    /\ pc[p] = "cfg_idle"
    /\ pc' = [pc EXCEPT ![p] = IF fr[p].cmd THEN "cmd_numctx" ELSE "idle"]
    /\ cfgLeft' = [cfgLeft EXCEPT ![p] = 0]
    /\ UNCHANGED <<regs, lockHeld, lock_fd, gGlobalsP, needInit,
                   libProcessContext, fr, result, callsLeft, got, errno,
                   procOf, sigmask>>

----------------------------------------------------------------------------

(* The registry: attach, the configuration loader, PmLogGetContext and     *)
(* PmLogFindContext.                                                       *)

Next ==
    \E p \in Procs :
        \/ InitOpen(p)
        \/ InitFtok(p)
        \/ InitLock(p)
        \/ InitShm(p)
        \/ InitSignature(p)
        \/ InitUnlock(p)
        \/ \E n \in CfgNameInputs, l \in CfgLevelStrInputs, f \in CfgFlagInputs :
              CfgEntry(p, n, l, f)
        \/ CfgSetLevel(p)
        \/ CfgInitFlags(p)
        \/ CfgSetFlag(p)
        \/ CfgDone(p)
        \/ Return(p)
        \/ \E n \in NameInputs : CallGetContext(p, n)
        \/ CallGetContextNull(p)
        \/ GcLock(p)
        \/ GcScan(p)
        \/ GcAdd(p)
        \/ GcName(p)
        \/ GcDefaults(p)
        \/ GcUnlock(p)
        \/ \E n \in NameInputs : CallFindContext(p, n)
        \/ FcLock(p)
        \/ FcScan(p)
        \/ FcUnlock(p)

Spec == Init /\ [][Next]_vars

----------------------------------------------------------------------------
(* The whole interface, with no configuration files to read.               *)

NextApi ==
    \E p \in Procs :
        \/ InitOpen(p)
        \/ InitFtok(p)
        \/ InitLock(p)
        \/ InitShm(p)
        \/ InitSignature(p)
        \/ InitUnlock(p)
        \/ CfgDone(p)
        \/ Return(p)
        \/ \E n \in NameInputs : CallGetContext(p, n)
        \/ CallGetContextNull(p)
        \/ GcLock(p)
        \/ GcScan(p)
        \/ GcAdd(p)
        \/ GcName(p)
        \/ GcDefaults(p)
        \/ GcUnlock(p)
        \/ \E n \in NameInputs : CallFindContext(p, n)
        \/ FcLock(p)
        \/ FcScan(p)
        \/ FcUnlock(p)
        \/ PmLogGetNumContexts(p)
        \/ \E i \in IndexInputs : PmLogGetIndContext(p, i)
        \/ \E h \in HeldHandles(p), l \in LevelInputs : PmLogSetContextLevel(p, h, l)
        \/ \E h \in HeldHandles(p) : PmLogGetContextLevel(p, h)
        \/ PmLogGetLibContext(p)
        \/ \E h \in Handles : CallSetLibContext(p, h)
        \/ SlLock(p)
        \/ SlScan(p)
        \/ SlUnlock(p)
        \/ \E b \in BOOLEAN : CallSetDevMode(p, b)
        \/ DmLock(p)
        \/ DmWrite(p)
        \/ DmUnlock(p)

SpecApi == InitApi /\ [][NextApi]_vars

----------------------------------------------------------------------------
(* validate_msgid *)

MSGID_LEN == 32

\* longest message id tried
MaxMsgIdLen == 34

\* a NULL char pointer
NullStr == <<"(null)">>

\* the string of n characters c
RECURSIVE Rep(_, _)
Rep(c, n) == IF n = 0 THEN << >> ELSE <<c>> \o Rep(c, n - 1)

\* message ids handed to validate_msgid: NULL, "A"^n, and "A"^(n-1) followed
\* by a space or a brace
MsgIdInputs ==
    {NullStr}
        \cup {Rep("A", n) : n \in 0..MaxMsgIdLen}
        \cup {Rep("A", n - 1) \o <<c>> : n \in 1..MaxMsgIdLen, c \in {" ", "{", "}"}}

\* the loop of validate_msgid from the character at index msgid_len on
RECURSIVE ValidateMsgidLoop(_, _)
ValidateMsgidLoop(msgid, msgid_len) ==
    IF msgid_len = Len(msgid)
    THEN (IF msgid_len = 0 THEN "EmptyMsgID" ELSE "None")
    ELSE IF msgid_len >= MSGID_LEN THEN "InvalidMsgID"
    ELSE IF msgid[msgid_len + 1] \in {" ", "{", "}"} THEN "InvalidMsgID"
    ELSE ValidateMsgidLoop(msgid, msgid_len + 1)

\* faulty id check: the empty id passes
validate_msgid_EmptyAllowed(msgid) ==
    IF msgid = NullStr THEN "InvalidMsgID"
    ELSE IF Len(msgid) = 0 THEN "None"
    ELSE ValidateMsgidLoop(msgid, 0)

validate_msgid(msgid) ==
    IF msgid = NullStr THEN "InvalidMsgID" ELSE ValidateMsgidLoop(msgid, 0)

\* every process is about to validate a message id; its constructor could
\* not open the lock file, so it logs against its own defaultSet
InitMsgId ==
    /\ regs = [r \in RegIds |-> IF r = ShmId THEN ZeroGlobals ELSE defaultSet]
    /\ lockHeld = {}
    /\ lock_fd = [p \in Procs |-> FALSE]
    /\ gGlobalsP = [p \in Procs |-> "defaultSet"]
    /\ needInit = [p \in Procs |-> FALSE]
    /\ libProcessContext = [p \in Procs |-> NullH]
    /\ pc = [p \in Procs |-> "validate_msgid"]
    /\ fr \in [Procs -> {[msgid |-> m] : m \in MsgIdInputs}]
    /\ result = [p \in Procs |-> NoResult]
    /\ callsLeft = 0
    /\ cfgLeft = [p \in Procs |-> 0]
    /\ got = {}
    /\ errno = [p \in Procs |-> 0]
    /\ procOf = [p \in Procs |-> p]
    /\ sigmask = [p \in Procs |-> {}]

ValidateMsgid(p) ==
    /\ pc[p] = "validate_msgid"
    /\ Complete(p, [op |-> "validate_msgid", msgid |-> fr[p].msgid,
                    err |-> validate_msgid(fr[p].msgid)])
    /\ UNCHANGED <<regs, lockHeld, lock_fd, gGlobalsP, needInit,
                   libProcessContext, fr, callsLeft, cfgLeft, got, errno,
                   procOf, sigmask>>

NextMsgId ==
    \E p \in Procs :
        \/ ValidateMsgid(p)
        \/ Return(p)

SpecMsgId == InitMsgId /\ [][NextMsgId]_vars

----------------------------------------------------------------------------
(* Message checks shared by the logging calls: PrvCheckContext, GetPidStr, *)
(* validate_keys, validate_format, validate_json_string, and the write of  *)
(* a line by PrvLogWrite.  Character strings are sequences of characters.  *)

BUFFER_LEN == 1024

TRUNCATED_MSG_SIZE == 128

DEBUG_MSG_ID == <<"D", "B", "G", "M", "S", "G">>

kPmLogValidateFormatFlag_LogWithClock == "LogWithClock"

\* the separator '\001' of the key list
SOH == "SOH"

\* characters c < ' ' or c >= 0x7f among those used in keys
NonPrintable == {"\t"}

kLogLibCmdPrefix == <<"!", "l", "o", "g", "l", "i", "b", " ">>
kLoadConf == <<"l", "o", "a", "d", "c", "o", "n", "f">>

\* the texts among those used that jsax_parse of libpbnjson accepts
ParsableJson == {<<"{", "}">>, <<"{", "}", " ">>}
JsaxParse(s) == s \in ParsableJson

\* faulty gating: a call at the threshold itself is refused
PrvCheckContext_Strict(g, contextP, level) ==
    IF ~PrvIsValidLevel(level) THEN "InvalidLevel"
    ELSE IF level >= Ctx(g, contextP).enabledLevel THEN "LevelDisabled"
    ELSE "None"

PrvCheckContext(g, contextP, level) ==
    IF ~PrvIsValidLevel(level) THEN "InvalidLevel"
    ELSE IF level > Ctx(g, contextP).enabledLevel THEN "LevelDisabled"
    ELSE "None"

\* a process has one thread here, so tid = pid
GetPidStr(flags) ==
    IF (kPmLogFlag_LogProcessIds \in flags) \/ (kPmLogFlag_LogThreadIds \in flags)
    THEN "[pid]"
    ELSE "[]"

\* the loop of validate_keys from the character at index i on
RECURSIVE ValidateKeysLoop(_, _)
ValidateKeysLoop(check_keywords, i) ==
    IF i > Len(check_keywords) THEN TRUE
    ELSE IF check_keywords[i] = SOH THEN ValidateKeysLoop(check_keywords, i + 1)
    ELSE IF check_keywords[i] \in NonPrintable THEN FALSE
    ELSE IF check_keywords[i] = "\\"
         THEN (IF i < Len(check_keywords)
                    /\ check_keywords[i + 1] \in {"\"", "\\"}
               THEN ValidateKeysLoop(check_keywords, i + 2)
               ELSE FALSE)
    ELSE ValidateKeysLoop(check_keywords, i + 1)

validate_keys(kv_count, check_keywords) ==
    IF check_keywords = NullStr THEN FALSE
    ELSE IF kv_count = 0 THEN FALSE
    ELSE ValidateKeysLoop(check_keywords, 1)

\* the count of validate_format from the character at index i on
RECURSIVE CountConversions(_, _)
CountConversions(format, i) ==
    IF i > Len(format) THEN 0
    ELSE IF format[i] = "%"
         THEN (IF i < Len(format) /\ format[i + 1] = "%"
               THEN CountConversions(format, i + 2)
               ELSE 1 + CountConversions(format, i + 1))
    ELSE CountConversions(format, i + 1)

\* faulty format check: the timestamp field of the with-clock call is not
\* counted
validate_format_NoClock(flags, kv_count, format) ==
    IF format = NullStr \/ kv_count = 0 THEN FALSE
    ELSE kv_count = CountConversions(format, 1)

validate_format(flags, kv_count, format) ==
    IF format = NullStr \/ kv_count = 0 THEN FALSE
    ELSE IF kPmLogValidateFormatFlag_LogWithClock \in flags
         THEN kv_count + 1 = CountConversions(format, 1)
    ELSE kv_count = CountConversions(format, 1)

\* TRUE iff sub occurs in s at index i
IsAt(s, i, sub) ==
    /\ i + Len(sub) - 1 =< Len(s)
    /\ SubSeq(s, i, i + Len(sub) - 1) = sub

\* the text up to each "}" (or "} ") in turn is parsed until a parse succeeds
\* or the text no longer fits json_str
validate_json_string(kvpairs, with_tailing) ==
    LET search_str == IF with_tailing THEN <<"}", " ">> ELSE <<"}">>
        move_index == Len(search_str)
    IN \E i \in 1..Len(kvpairs) :
          /\ IsAt(kvpairs, i, search_str)
          /\ i - 1 + move_index =< BUFFER_LEN - 1
          /\ JsaxParse(SubSeq(kvpairs, 1, i - 1 + move_index))

\* faulty formatting: the text is not cut to the buffer
Vsnprintf_NoLimit(size, text) == text

\* vsnprintf / snprintf of a text without conversions into size bytes
Vsnprintf(size, text) == SubSeq(text, 1, Min({Len(text), size - 1}))

\* strncmp(msg, kLogLibCmdPrefix, kLogLibCmdPrefixLen) == 0
HasCmdPrefix(msg) == IsAt(msg, 1, kLogLibCmdPrefix)

\* the line syslog receives from PrvLogWrite
SyslogLine(g, contextP, level, msgid, s) ==
    [level |-> level,
     ptidStr |-> GetPidStr(Ctx(g, contextP).flags),
     componentStr |-> Ctx(g, contextP).component,
     msgid |-> IF msgid = NullStr THEN << >> ELSE msgid,
     s |-> s]

\* faulty echo: stdout is tried only when the line did not go to stderr
ConsoleStreams_Exclusive(g, contextP, level) ==
    IF kPmLogFlag_LogToConsole \in Ctx(g, contextP).flags
    THEN (IF (level >= g.consoleConf.stdErrMinLevel)
               /\ (level =< g.consoleConf.stdErrMaxLevel)
          THEN {"stderr"}
          ELSE IF (level >= g.consoleConf.stdOutMinLevel)
                    /\ (level =< g.consoleConf.stdOutMaxLevel)
          THEN {"stdout"} ELSE {})
    ELSE {}

\* the console streams PrvLogWrite echoes the line to
ConsoleStreams(g, contextP, level) ==
    IF kPmLogFlag_LogToConsole \in Ctx(g, contextP).flags
    THEN (IF (level >= g.consoleConf.stdErrMinLevel)
               /\ (level =< g.consoleConf.stdErrMaxLevel)
          THEN {"stderr"} ELSE {})
         \cup
         (IF (level >= g.consoleConf.stdOutMinLevel)
               /\ (level =< g.consoleConf.stdOutMaxLevel)
          THEN {"stdout"} ELSE {})
    ELSE {}

\* g_strescape(source, NULL) on the characters used: '"', '\\' and the tab
\* become a backslash and a character, the others are copied
EscapedChar(c) ==
    IF c \in {"\"", "\\"} THEN <<"\\", c>>
    ELSE IF c = "\t" THEN <<"\\", "t">>
    ELSE <<c>>

RECURSIVE g_strescape(_)
g_strescape(source) ==
    IF source = << >> THEN << >>
    ELSE IF Len(source) = 1 THEN EscapedChar(source[1])
    ELSE g_strescape(SubSeq(source, 1, Len(source) \div 2))
            \o g_strescape(SubSeq(source, Len(source) \div 2 + 1, Len(source)))

\* strncpy(buffer, source, n) into a zeroed buffer of n + 1 bytes
StrNCpy(n, source) == SubSeq(source, 1, Min({Len(source), n}))

\* strtruncate_and_escape: the bytes taken from the source and the escaped
\* text made of them
strtruncate_and_escape(source) ==
    [taken |-> StrNCpy(TRUNCATED_MSG_SIZE - 1, source),
     text |-> g_strescape(StrNCpy(TRUNCATED_MSG_SIZE - 1, source))]

\* what a logging call hands back: the error code, the check it ended in,
\* its arguments, what it wrote to syslog and to the console, and the
\* excerpts of its input it printed in diagnostics
LogResult(op, args, err, stage, syslog, console) ==
    [op |-> op, args |-> args, err |-> err, stage |-> stage,
     syslog |-> syslog, console |-> console, excerpts |-> << >>]

\* outcome of the checks of a logging call: refused in stage with err, or
\* (err = "None") the line s goes to PrvLogWrite under the id msgid
Refused(err, stage) ==
    [err |-> err, stage |-> stage, msgid |-> NullStr, s |-> << >>,
     excerpts |-> << >>]
Passed(msgid, s) ==
    [err |-> "None", stage |-> "PrvLogWrite", msgid |-> msgid, s |-> s,
     excerpts |-> << >>]

\* the outcome o after a diagnostic with an excerpt of source was printed
Showing(o, source) ==
    [o EXCEPT !.excerpts = Append(@, strtruncate_and_escape(source))]

----------------------------------------------------------------------------
(* _PmLogMsgKV *)

\* faulty debug rule: the key-value count is not looked at
MsgKVDebugBranch_NoKvTest(a, final_str) ==
    IF a.msgid # NullStr THEN Refused("InvalidFormat", "debug msgid")
    ELSE Passed(DEBUG_MSG_ID, final_str)

\* the checks of _PmLogMsgKV at the debug level
MsgKVDebugBranch(a, final_str) ==
    IF a.msgid # NullStr THEN Refused("InvalidFormat", "debug msgid")
    ELSE IF a.kv_count # 0 THEN Refused("InvalidFormat", "debug kv_count")
    ELSE Passed(DEBUG_MSG_ID, final_str)

\* _PmLogMsgKV once the text is formatted: the MSG_TRUNCATED warning, the
\* EMPTY_MSGID and INVALID_JSON errors, or the line for PrvLogWrite
MsgKVAfterFormat(a, err, final_str, ptr_final_str) ==
    LET warned(o) == IF Len(a.fmt) >= BUFFER_LEN
                     THEN [o EXCEPT !.excerpts =
                              <<strtruncate_and_escape(ptr_final_str)>> \o @]
                     ELSE o
    IN IF a.level = kPmLogLevel_Debug
       THEN warned(Passed(DEBUG_MSG_ID, final_str))
       ELSE IF err = "EmptyMsgID"
       THEN warned(Showing(Refused("InvalidFormat", "EmptyMsgID"),
                           ptr_final_str))
       ELSE IF a.kv_count # 0 /\ ~validate_json_string(final_str, TRUE)
       THEN warned(Showing(Refused("InvalidFormat", "validate_json_string"),
                           final_str))
       ELSE warned(Passed(a.msgid, final_str))

\* the checks of _PmLogMsgKV up to the call of PrvLogWrite
MsgKVCheck(p, a) ==
    LET context_ptr == PrvResolveContext(p, a.context)
        err == validate_msgid(a.msgid)
        empty_kv_pair_str == <<"{", "}", " ">>
        final_str ==
            IF a.kv_count = 0
            THEN empty_kv_pair_str
                     \o Vsnprintf(BUFFER_LEN - Len(empty_kv_pair_str), a.fmt)
            ELSE Vsnprintf(BUFFER_LEN, a.fmt)
        ptr_final_str ==
            IF a.kv_count = 0
            THEN Vsnprintf(BUFFER_LEN - Len(empty_kv_pair_str), a.fmt)
            ELSE final_str
        o == MsgKVAfterFormat(a, err, final_str, ptr_final_str)
    IN IF context_ptr = NullH THEN Refused("InvalidContext", "PrvResolveContext")
       ELSE IF PrvCheckContext(G(p), context_ptr, a.level) # "None"
       THEN Refused(PrvCheckContext(G(p), context_ptr, a.level), "PrvCheckContext")
       ELSE IF a.level # kPmLogLevel_Debug
       THEN (IF err = "InvalidMsgID" THEN Refused(err, "validate_msgid")
             ELSE IF a.kv_count # 0 /\ ~validate_keys(a.kv_count, a.check_keywords)
             THEN Refused("InvalidFormat", "validate_keys")
             ELSE IF a.kv_count # 0
                       /\ ~validate_format(a.flags, a.kv_count, a.check_formats)
             THEN Refused("InvalidFormat", "validate_format")
             ELSE o)
       ELSE (IF MsgKVDebugBranch(a, final_str).err # "None"
             THEN MsgKVDebugBranch(a, final_str)
             ELSE o)

\* a logging call op with arguments a whose checks had the outcome o
LogOutcome(p, op, a, o, contextP) ==
    IF o.err # "None"
    THEN /\ Complete(p, [LogResult(op, a, o.err, o.stage, << >>, {})
                             EXCEPT !.excerpts = o.excerpts])
         /\ fr' = [fr EXCEPT ![p] = EmptyFrame]
    ELSE /\ pc' = [pc EXCEPT ![p] = "log_write"]
         /\ fr' = [fr EXCEPT ![p] =
                     [op |-> op, args |-> a, cont |-> "idle",
                      contextP |-> contextP,
                      level |-> a.level, msgid |-> o.msgid, s |-> o.s,
                      excerpts |-> o.excerpts]]
         /\ UNCHANGED result

LogCall(p, op, a, o) ==
    /\ CanCall(p)
    /\ callsLeft' = callsLeft - 1
    /\ LogOutcome(p, op, a, o, PrvResolveContext(p, a.context))
    /\ UNCHANGED <<regs, lockHeld, lock_fd, gGlobalsP, needInit,
                   libProcessContext, cfgLeft, got, errno, procOf, sigmask>>

PmLogMsgKV(p, a) == LogCall(p, "_PmLogMsgKV", a, MsgKVCheck(p, a))

\* HandleLogLibCommand: the line is the prefix followed by exactly "loadconf"
IsLoadConf(msg) ==
    /\ HasCmdPrefix(msg)
    /\ SubSeq(msg, Len(kLogLibCmdPrefix) + 1, Len(msg)) = kLoadConf

\* the values the C library's calls leave in errno: 0 and ENOENT
ErrnoValues == {0, 2}

\* PrvLogWrite at Exit, when errno holds current: errno = savedErrNo
ErrnoAtExit_Left(savedErrNo, current) == current

ErrnoAtExit(savedErrNo, current) == savedErrNo

\* PrvLogWrite past HandleLogLibCommand: the line goes to syslog and, with
\* LogToConsole, to the console streams, which leave any value in errno;
\* then Exit
WriteLine(p, f, savedErrNo) ==
    /\ Complete(p, [LogResult(f.op, f.args, "None", "PrvLogWrite",
                              <<SyslogLine(G(p), f.contextP, f.level,
                                           f.msgid, f.s)>>,
                              ConsoleStreams(G(p), f.contextP, f.level))
                       EXCEPT !.excerpts = f.excerpts])
    /\ fr' = [fr EXCEPT ![p] = EmptyFrame]
    /\ \E e \in ErrnoValues :
          errno' = [errno EXCEPT ![p] = ErrnoAtExit(savedErrNo, e)]

\* PrvLogWrite of a line that HandleLogLibCommand does not take for the
\* loadconf command: savedErrNo = errno, then the line is written
LogWrite(p) ==
    /\ pc[p] = "log_write"
    /\ ~IsLoadConf(fr[p].s)
    /\ WriteLine(p, fr[p], errno[p])
    /\ UNCHANGED <<regs, lockHeld, lock_fd, gGlobalsP, needInit,
                   libProcessContext, callsLeft, cfgLeft, got,
                   procOf, sigmask>>

\* every process has run its constructor on the segment and the first one
\* found no configuration entry
InitAttached(budget) ==
    /\ regs = [r \in RegIds |->
                 IF r = ShmId THEN InitSharedMem(defaultSet) ELSE defaultSet]
    /\ lockHeld = {}
    /\ lock_fd = [p \in Procs |-> TRUE]
    /\ gGlobalsP = [p \in Procs |-> "shm"]
    /\ needInit = [p \in Procs |-> p = 1]
    /\ libProcessContext = [p \in Procs |-> NullH]
    /\ pc = [p \in Procs |-> "idle"]
    /\ fr = [p \in Procs |-> EmptyFrame]
    /\ result = [p \in Procs |-> NoResult]
    /\ callsLeft = budget
    /\ cfgLeft = [p \in Procs |-> 0]
    /\ got = {}
    /\ errno = [p \in Procs |-> 0]
    /\ procOf = [p \in Procs |-> p]
    /\ sigmask = [p \in Procs |-> {}]

\* longest check format, largest kv_count and number of calls tried
MaxFmtLen == 4
MaxKvCount == 2
MaxFmtCalls == 2

\* check formats: NULL and the texts over '%' and 'd' up to MaxFmtLen
FormatInputs ==
    {NullStr} \cup UNION {[1..n -> {"%", "d"}] : n \in 0..MaxFmtLen}

\* calls of the counted-key-value macros at the info level that differ in
\* the flags, the count and the check format
FmtArgs ==
    {[context |-> NullH, level |-> kPmLogLevel_Info, flags |-> fl,
      msgid |-> <<"I", "D">>, kv_count |-> n, check_keywords |-> <<"k">>,
      check_formats |-> f, fmt |-> <<"{", "}", " ", "m">>] :
        fl \in {{}, {kPmLogValidateFormatFlag_LogWithClock}},
        n \in 0..MaxKvCount, f \in FormatInputs}

InitFmt == InitAttached(MaxFmtCalls)

NextFmt ==
    \E p \in Procs :
        \/ \E a \in FmtArgs : PmLogMsgKV(p, a)
        \/ LogWrite(p)
        \/ Return(p)

SpecFmt == InitFmt /\ [][NextFmt]_vars

----------------------------------------------------------------------------
(* PmLogString_ *)

\* the checks of PmLogString_ up to the call of PrvLogWrite
StringCheck(p, a) ==
    LET contextP == PrvResolveContext(p, a.context)
        logErr == validate_msgid(a.msgid)
        lineStr ==
            Vsnprintf(BUFFER_LEN,
                      (IF a.kvpairs # NullStr THEN a.kvpairs ELSE <<"{", "}">>)
                          \o <<" ">>
                          \o (IF a.message # NullStr THEN a.message ELSE << >>))
    IN IF contextP = NullH THEN Refused("InvalidContext", "PrvResolveContext")
       ELSE IF PrvCheckContext(G(p), contextP, a.level) # "None"
       THEN Refused(PrvCheckContext(G(p), contextP, a.level), "PrvCheckContext")
       ELSE IF a.level # kPmLogLevel_Debug
       THEN (IF logErr = "InvalidMsgID" THEN Refused(logErr, "validate_msgid")
             ELSE IF a.kvpairs # NullStr /\ ~validate_json_string(a.kvpairs, FALSE)
             THEN Showing(Refused("InvalidFormat", "validate_json_string"),
                          a.kvpairs)
             ELSE IF logErr = "EmptyMsgID"
             THEN Showing(Refused("InvalidFormat", "EmptyMsgID"), lineStr)
             ELSE Passed(a.msgid, lineStr))
       ELSE (IF a.msgid # NullStr THEN Refused("InvalidFormat", "debug msgid")
             ELSE IF a.kvpairs # NullStr THEN Refused("InvalidFormat", "debug kvpairs")
             ELSE IF a.message = NullStr THEN Refused("InvalidFormat", "debug message")
             ELSE Passed(DEBUG_MSG_ID, lineStr))

PmLogString(p, a) == LogCall(p, "PmLogString_", a, StringCheck(p, a))

\* number of calls tried
MaxLogCalls == 3

\* thresholds given to the global context, levels of the logging calls
ThresholdInputs == {kPmLogLevel_None, kPmLogLevel_Warning, kPmLogLevel_Debug}
LogLevelInputs ==
    {kPmLogLevel_None, kPmLogLevel_Error, kPmLogLevel_Info, kPmLogLevel_Debug,
     kPmLogLevel_Debug + 1}

StringArgs ==
    {[context |-> NullH, level |-> l, msgid |-> m, kvpairs |-> kv, message |-> msg] :
        l \in LogLevelInputs, m \in {NullStr, << >>, <<"I", "D">>},
        kv \in {NullStr, <<"{", "}">>}, msg \in {NullStr, <<"m">>}}

MsgKVArgs ==
    {[context |-> NullH, level |-> l, flags |-> {}, msgid |-> m, kv_count |-> n,
      check_keywords |-> <<"k">>, check_formats |-> <<"%", "d">>,
      fmt |-> <<"{", "}", " ", "m">>] :
        l \in LogLevelInputs, m \in {NullStr, <<"I", "D">>}, n \in {0, 1}}

InitLog == InitAttached(MaxLogCalls)

NextLog ==
    \E p \in Procs :
        \/ \E level \in ThresholdInputs : PmLogSetContextLevel(p, NullH, level)
        \/ \E a \in StringArgs : PmLogString(p, a)
        \/ \E a \in MsgKVArgs : PmLogMsgKV(p, a)
        \/ LogWrite(p)
        \/ Return(p)

SpecLog == InitLog /\ [][NextLog]_vars

----------------------------------------------------------------------------
(* PmLogPrint_ and the loadconf command of HandleLogLibCommand: a line     *)
(* that is exactly the command prefix followed by "loadconf" makes         *)
(* PrvLogWrite run PmLogPrvReadConfigs and then copy the global context's  *)
(* flags to every context whose flags are not marked Overridden.           *)

\* the context PmLogPrint_ and PmLogVPrint_ look up in place of the caller's
LEGACY_LOG == <<"L", "E", "G", "A", "C", "Y", "_", "L", "O", "G">>

\* PmLogPrint_: PmLogGetContext(LEGACY_LOG, &forced_context)
CallPrint(p, a) ==
    /\ CanCall(p)
    /\ callsLeft' = callsLeft - 1
    /\ GetContextEntry(p, LEGACY_LOG,
                       [EmptyFrame EXCEPT !.cont = "print_check", !.args = a])
    /\ UNCHANGED <<regs, lockHeld, lock_fd, gGlobalsP, needInit,
                   libProcessContext, cfgLeft, got, errno, procOf, sigmask>>

\* PmLogPrint_ after the lookup: the caller's context when the lookup
\* failed, PrvResolveContext, PrvCheckContext, then PrvLogVPrint
PrintCheck(p) ==
    /\ pc[p] = "print_check"
    /\ LET a == fr[p].args
           forced_context == IF fr[p].logErr # "None" THEN a.context
                             ELSE fr[p].context
           contextP == PrvResolveContext(p, forced_context)
           o == IF contextP = NullH
                THEN Refused("InvalidContext", "PrvResolveContext")
                ELSE IF PrvCheckContext(G(p), contextP, a.level) # "None"
                THEN Refused(PrvCheckContext(G(p), contextP, a.level),
                             "PrvCheckContext")
                ELSE IF a.fmt = NullStr \/ a.fmt = << >>
                THEN Refused("InvalidFormat", "PrvLogVPrint")
                ELSE Passed(NullStr, Vsnprintf(BUFFER_LEN, a.fmt))
       IN LogOutcome(p, "PmLogPrint_", a, o, contextP)
    /\ UNCHANGED <<regs, lockHeld, lock_fd, gGlobalsP, needInit,
                   libProcessContext, callsLeft, cfgLeft, got, errno,
                   procOf, sigmask>>

\* what the registry and the other processes looked like when the command
\* was taken (history, read only by the properties)
Snapshot == [regs |-> regs, pc |-> pc, cfgLeft |-> cfgLeft,
             callsLeft |-> callsLeft]

\* PrvLogWrite: savedErrNo = errno; HandleLogLibCommand on the loadconf
\* command: PmLogPrvReadConfigs(), whose directory and file calls leave any
\* value in errno
LwLoadConf(p) ==
    /\ pc[p] = "log_write"
    /\ IsLoadConf(fr[p].s)
    /\ pc' = [pc EXCEPT ![p] = "cfg_idle"]
    /\ cfgLeft' = [cfgLeft EXCEPT ![p] = MaxCfgEntries]
    /\ fr' = [fr EXCEPT ![p] = [EmptyFrame EXCEPT !.cmd = TRUE,
                                                  !.saved = fr[p],
                                                  !.before = Snapshot,
                                                  !.savedErrNo = errno[p]]]
    /\ \E e \in ErrnoValues : errno' = [errno EXCEPT ![p] = e]
    /\ UNCHANGED <<regs, lockHeld, lock_fd, gGlobalsP, needInit,
                   libProcessContext, result, callsLeft, got,
                   procOf, sigmask>>

\* HandleLogLibCommand: PmLogGetNumContexts(&contextsNumber); when it fails
\* the command is not taken and PrvLogWrite writes the line
CmdNumContexts(p) ==
    /\ pc[p] = "cmd_numctx"
    /\ IF gGlobalsP[p] = "NULL"
       THEN WriteLine(p, fr[p].saved, fr[p].savedErrNo)
       ELSE /\ pc' = [pc EXCEPT ![p] = "cmd_loop"]
            /\ fr' = [fr EXCEPT ![p] =
                        [cmd |-> TRUE, saved |-> fr[p].saved,
                         before |-> fr[p].before,
                         savedErrNo |-> fr[p].savedErrNo,
                         contextsNumber |-> 1 + G(p).numUserContexts,
                         contextIndex |-> 0]]
            /\ UNCHANGED <<result, errno>>
    /\ UNCHANGED <<regs, lockHeld, lock_fd, gGlobalsP, needInit,
                   libProcessContext, callsLeft, cfgLeft, got,
                   procOf, sigmask>>

\* the test of one pass of the loop: the context at contextIndex resolves
\* and its flags are not marked Overridden
PropagatesTo_IgnoreOverridden(g, r, contextP) ==
    r.err = "None" /\ contextP # NullH

PropagatesTo(g, r, contextP) ==
    /\ r.err = "None"
    /\ contextP # NullH
    /\ kPmLogFlag_Overridden \notin Ctx(g, contextP).flags

\* HandleLogLibCommand: one pass of the loop over the context indices, up to
\* the test of the context's flags
CmdPropagate(p) ==
    /\ pc[p] = "cmd_loop"
    /\ fr[p].contextIndex < fr[p].contextsNumber
    /\ LET r == GetIndContextResult(G(p), fr[p].contextIndex)
           contextP == PrvResolveContext(p, r.handle)
       IN IF PropagatesTo(G(p), r, contextP)
          THEN /\ pc' = [pc EXCEPT ![p] = "cmd_copy"]
               /\ fr' = [fr EXCEPT ![p] =
                           [cmd |-> TRUE, saved |-> fr[p].saved,
                            before |-> fr[p].before,
                            savedErrNo |-> fr[p].savedErrNo,
                            contextsNumber |-> fr[p].contextsNumber,
                            contextIndex |-> fr[p].contextIndex,
                            contextP |-> contextP]]
          ELSE /\ fr' = [fr EXCEPT ![p].contextIndex = @ + 1]
               /\ UNCHANGED pc
    /\ UNCHANGED <<regs, lockHeld, lock_fd, gGlobalsP, needInit,
                   libProcessContext, result, callsLeft, cfgLeft, got,
                   errno, procOf, sigmask>>

\* HandleLogLibCommand: contextP->info.flags = gGlobalContextP->info.flags
CmdCopy(p) ==
    /\ pc[p] = "cmd_copy"
    /\ regs' = [regs EXCEPT ![RegOf(p)] =
                   SetCtx(@, fr[p].contextP,
                          [Ctx(@, fr[p].contextP) EXCEPT
                              !.flags = G(p).globalContext.flags])]
    /\ pc' = [pc EXCEPT ![p] = "cmd_loop"]
    /\ fr' = [fr EXCEPT ![p] =
                [cmd |-> TRUE, saved |-> fr[p].saved,
                 before |-> fr[p].before,
                 savedErrNo |-> fr[p].savedErrNo,
                 contextsNumber |-> fr[p].contextsNumber,
                 contextIndex |-> fr[p].contextIndex + 1]]
    /\ UNCHANGED <<lockHeld, lock_fd, gGlobalsP, needInit, libProcessContext,
                   result, callsLeft, cfgLeft, got, errno, procOf, sigmask>>

\* HandleLogLibCommand returns true and PrvLogWrite goes to Exit without
\* writing
CmdDone(p) ==
    /\ pc[p] = "cmd_loop"
    /\ fr[p].contextIndex >= fr[p].contextsNumber
    /\ Complete(p, LogResult(fr[p].saved.op, fr[p].saved.args, "None",
                             "HandleLogLibCommand", << >>, {}))
    /\ fr' = [fr EXCEPT ![p] = EmptyFrame]
    /\ errno' = [errno EXCEPT ![p] = ErrnoAtExit(fr[p].savedErrNo, errno[p])]
    /\ UNCHANGED <<regs, lockHeld, lock_fd, gGlobalsP, needInit,
                   libProcessContext, callsLeft, cfgLeft, got,
                   procOf, sigmask>>

MaxCmdCalls == 1

CmdCfgNameInputs == {NameA, kPmLogGlobalContextName}

PrintFmtInputs == {kLogLibCmdPrefix \o kLoadConf,
                   kLogLibCmdPrefix \o <<"x">>,
                   <<"m">>,
                   NullStr}

PrintArgs == {[context |-> NullH, level |-> kPmLogLevel_Info, fmt |-> f] :
                 f \in PrintFmtInputs}

InitCmd == InitWith(MaxCmdCalls)

NextCmd ==
    \E p \in Procs :
        \/ InitOpen(p)
        \/ InitFtok(p)
        \/ InitLock(p)
        \/ InitShm(p)
        \/ InitSignature(p)
        \/ InitUnlock(p)
        \/ \E n \in CmdCfgNameInputs, l \in CfgLevelStrInputs,
              f \in CfgFlagInputs : CfgEntry(p, n, l, f)
        \/ CfgSetLevel(p)
        \/ CfgInitFlags(p)
        \/ CfgSetFlag(p)
        \/ CfgDone(p)
        \/ Return(p)
        \/ GcLock(p)
        \/ GcScan(p)
        \/ GcAdd(p)
        \/ GcName(p)
        \/ GcDefaults(p)
        \/ GcUnlock(p)
        \/ \E a \in PrintArgs : CallPrint(p, a)
        \/ PrintCheck(p)
        \/ LogWrite(p)
        \/ LwLoadConf(p)
        \/ CmdNumContexts(p)
        \/ CmdPropagate(p)
        \/ CmdCopy(p)
        \/ CmdDone(p)

SpecCmd == InitCmd /\ [][NextCmd]_vars

----------------------------------------------------------------------------
(* Long texts: the logging calls with messages, key-value texts and        *)
(* formats around the sizes of the line buffer and of the excerpt buffer.  *)

MaxTextLen == 1030
MaxTruncCalls == 1

\* the text of n characters c
LongText(c, n) == << >> \o [i \in 1..n |-> c]

TextLenInputs ==
    {1, TRUNCATED_MSG_SIZE - 1, TRUNCATED_MSG_SIZE, BUFFER_LEN - 4,
     BUFFER_LEN - 3, BUFFER_LEN - 1, BUFFER_LEN, MaxTextLen}

\* PmLogString_ at the info level: the id empty or not, the key-value text
\* NULL, "{}" or an unfinished object of each length, the message of each
\* length
TruncStringArgs ==
    {[context |-> NullH, level |-> kPmLogLevel_Info, msgid |-> m,
      kvpairs |-> kv, message |-> LongText("m", n)] :
        m \in {<< >>, <<"I", "D">>},
        kv \in {NullStr, <<"{", "}">>}
                 \cup {<<"{", "\"">> \o LongText("k", k) : k \in TextLenInputs},
        n \in TextLenInputs}

\* _PmLogMsgKV at the info level: a format without conversions of each
\* length, with and without an object in front
TruncMsgKVArgs ==
    {[context |-> NullH, level |-> kPmLogLevel_Info, flags |-> {},
      msgid |-> m, kv_count |-> n, check_keywords |-> <<"k">>,
      check_formats |-> <<"%", "d">>, fmt |-> f] :
        m \in {<< >>, <<"I", "D">>}, n \in {0, 1},
        f \in {LongText("m", k) : k \in TextLenInputs}
                \cup {<<"{", "}", " ">> \o LongText("m", k) : k \in TextLenInputs}}

\* PmLogPrint_ at the info level with a format of each length
TruncPrintArgs ==
    {[context |-> NullH, level |-> kPmLogLevel_Info, fmt |-> LongText("m", k)] :
        k \in TextLenInputs}

InitTrunc == InitAttached(MaxTruncCalls)

NextTrunc ==
    \E p \in Procs :
        \/ \E a \in TruncStringArgs : PmLogString(p, a)
        \/ \E a \in TruncMsgKVArgs : PmLogMsgKV(p, a)
        \/ \E a \in TruncPrintArgs : CallPrint(p, a)
        \/ GcLock(p)
        \/ GcScan(p)
        \/ GcAdd(p)
        \/ GcName(p)
        \/ GcDefaults(p)
        \/ GcUnlock(p)
        \/ PrintCheck(p)
        \/ LogWrite(p)
        \/ Return(p)

SpecTrunc == InitTrunc /\ [][NextTrunc]_vars

----------------------------------------------------------------------------
(* Context names: PmLogGetContext and PmLogFindContext with names at the   *)
(* limits of the length and of the character set.                          *)

MaxNameCalls == 2

\* the empty name, names of 1, 31 and 32 characters, a name with every kind
\* of allowed character, names with a space and with angle brackets, and the
\* two reserved names
NameRuleInputs ==
    {<< >>, NameA, <<"a", "-", "_", ".", "0", "Z">>,
     LongText("a", PMLOG_MAX_CONTEXT_NAME_LEN),
     LongText("a", PMLOG_MAX_CONTEXT_NAME_LEN + 1),
     <<"A", " ">>, <<"<", "x", ">">>,
     kPmLogGlobalContextName, kPmLogDefaultLibContextName}

InitName == InitAttached(MaxNameCalls)

NextName ==
    \E p \in Procs :
        \/ \E n \in NameRuleInputs : CallGetContext(p, n)
        \/ GcLock(p)
        \/ GcScan(p)
        \/ GcAdd(p)
        \/ GcName(p)
        \/ GcDefaults(p)
        \/ GcUnlock(p)
        \/ \E n \in NameRuleInputs : CallFindContext(p, n)
        \/ FcLock(p)
        \/ FcScan(p)
        \/ FcUnlock(p)
        \/ Return(p)

SpecName == InitName /\ [][NextName]_vars

----------------------------------------------------------------------------
(* The console echo: PmLogString_ at every level on the global context,    *)
(* with and without LogToConsole, under several console level windows.     *)
(* The windows are fields of the shared segment; the library writes only   *)
(* the defaults of theDefaultSet, other programs attached to the segment   *)
(* set them.                                                               *)

MaxConCalls == 2

ConsoleWindow(errMin, errMax, outMin, outMax) ==
    [stdErrMinLevel |-> errMin, stdErrMaxLevel |-> errMax,
     stdOutMinLevel |-> outMin, stdOutMaxLevel |-> outMax]

\* the default windows, both streams for every level, stderr up to warning
\* overlapping stdout from err, and an empty stderr window
ConsoleConfInputs ==
    {defaultSet.consoleConf,
     ConsoleWindow(kPmLogLevel_Emergency, kPmLogLevel_Debug,
                   kPmLogLevel_Emergency, kPmLogLevel_Debug),
     ConsoleWindow(kPmLogLevel_Emergency, kPmLogLevel_Warning,
                   kPmLogLevel_Error, kPmLogLevel_Notice),
     ConsoleWindow(kPmLogLevel_Error, kPmLogLevel_Critical,
                   kPmLogLevel_Info, kPmLogLevel_Debug)}

\* the flags of the global context: as initialized, or after a configuration
\* entry for it asked for logToConsole
ConsoleFlagInputs ==
    {defaultSet.globalContext.flags,
     PrvSetContextFlag(defaultSet.globalContext.flags,
                       {kPmLogFlag_LogToConsole}, TRUE)}

\* PmLogString_ on the global context at each level, without message id at
\* the debug level
ConsoleArgs ==
    {[context |-> NullH, level |-> l,
      msgid |-> IF l = kPmLogLevel_Debug THEN NullStr ELSE <<"I", "D">>,
      kvpairs |-> NullStr, message |-> <<"m">>] :
        l \in kPmLogLevel_Emergency..kPmLogLevel_Debug}

InitCon ==
    /\ \E w \in ConsoleConfInputs, f \in ConsoleFlagInputs :
          regs = [r \in RegIds |->
                    IF r = ShmId
                    THEN [InitSharedMem(defaultSet) EXCEPT
                              !.consoleConf = w, !.globalContext.flags = f]
                    ELSE defaultSet]
    /\ lockHeld = {}
    /\ lock_fd = [p \in Procs |-> TRUE]
    /\ gGlobalsP = [p \in Procs |-> "shm"]
    /\ needInit = [p \in Procs |-> FALSE]
    /\ libProcessContext = [p \in Procs |-> NullH]
    /\ pc = [p \in Procs |-> "idle"]
    /\ fr = [p \in Procs |-> EmptyFrame]
    /\ result = [p \in Procs |-> NoResult]
    /\ callsLeft = MaxConCalls
    /\ cfgLeft = [p \in Procs |-> 0]
    /\ got = {}
    /\ errno = [p \in Procs |-> 0]
    /\ procOf = [p \in Procs |-> p]
    /\ sigmask = [p \in Procs |-> {}]

NextCon ==
    \E p \in Procs :
        \/ PmLogSetContextLevel(p, NullH, kPmLogLevel_Debug)
        \/ \E a \in ConsoleArgs : PmLogString(p, a)
        \/ LogWrite(p)
        \/ Return(p)

SpecCon == InitCon /\ [][NextCon]_vars

----------------------------------------------------------------------------
(* errno across PrvLogWrite: attached processes whose own code leaves any  *)
(* value in errno log ordinary lines and the loadconf command, with and    *)
(* without console mirroring.                                              *)

\* number of calls tried
MaxErrCalls == 1

\* the program's own code leaves e in errno before it logs
SetErrno(p, e) ==
    /\ CanCall(p)
    /\ errno[p] # e
    /\ errno' = [errno EXCEPT ![p] = e]
    /\ UNCHANGED <<regs, lockHeld, lock_fd, gGlobalsP, needInit,
                   libProcessContext, pc, fr, result, callsLeft, cfgLeft,
                   got, procOf, sigmask>>

\* PmLogPrint_ at the info level: an ordinary line and the command
ErrnoArgs ==
    {[context |-> NullH, level |-> kPmLogLevel_Info, fmt |-> f] :
        f \in {<<"m">>, kLogLibCmdPrefix \o kLoadConf}}

InitErrno ==
    /\ \E w \in ConsoleConfInputs, f \in ConsoleFlagInputs :
          regs = [r \in RegIds |->
                    IF r = ShmId
                    THEN [InitSharedMem(defaultSet) EXCEPT
                              !.consoleConf = w, !.globalContext.flags = f]
                    ELSE defaultSet]
    /\ lockHeld = {}
    /\ lock_fd = [p \in Procs |-> TRUE]
    /\ gGlobalsP = [p \in Procs |-> "shm"]
    /\ needInit = [p \in Procs |-> FALSE]
    /\ libProcessContext = [p \in Procs |-> NullH]
    /\ pc = [p \in Procs |-> "idle"]
    /\ fr = [p \in Procs |-> EmptyFrame]
    /\ result = [p \in Procs |-> NoResult]
    /\ callsLeft = MaxErrCalls
    /\ cfgLeft = [p \in Procs |-> 0]
    /\ got = {}
    /\ errno = [p \in Procs |-> 0]
    /\ procOf = [p \in Procs |-> p]
    /\ sigmask = [p \in Procs |-> {}]

NextErrno ==
    \E p \in Procs :
        \/ \E e \in ErrnoValues : SetErrno(p, e)
        \/ \E a \in ErrnoArgs : CallPrint(p, a)
        \/ PrintCheck(p)
        \/ LogWrite(p)
        \/ LwLoadConf(p)
        \/ \E n \in CmdCfgNameInputs, l \in CfgLevelStrInputs,
              f \in CfgFlagInputs : CfgEntry(p, n, l, f)
        \/ CfgSetLevel(p)
        \/ CfgInitFlags(p)
        \/ CfgSetFlag(p)
        \/ CfgDone(p)
        \/ GcLock(p)
        \/ GcScan(p)
        \/ GcAdd(p)
        \/ GcName(p)
        \/ GcDefaults(p)
        \/ GcUnlock(p)
        \/ CmdNumContexts(p)
        \/ CmdPropagate(p)
        \/ CmdCopy(p)
        \/ CmdDone(p)
        \/ Return(p)

SpecErrno == InitErrno /\ [][NextErrno]_vars

----------------------------------------------------------------------------
(* Level labels: PmLogLevelToString and PmLogStringToLevel look a value up *)
(* in kLogLevelLabels; a program calls one and may hand what it got to the *)
(* other.                                                                  *)

\* a faulty lookup that matches the entry after the one asked for
PrvGetIntLabel_NextEntry(labels, n) ==
    LET hit == {k \in 1..Len(labels) : labels[k].n = n + 1}
    IN IF hit = {} THEN 0 ELSE Min(hit)

\* the index of the first table entry with value n, 0 when there is none
PrvGetIntLabel(labels, n) ==
    LET hit == {k \in 1..Len(labels) : labels[k].n = n}
    IN IF hit = {} THEN 0 ELSE Min(hit)

\* [found, s]: the label, or NULL
PmLogLevelToString(level) ==
    LET k == PrvGetIntLabel(kLogLevelLabels, level)
    IN IF k # 0 THEN [found |-> TRUE, s |-> kLogLevelLabels[k].s]
       ELSE [found |-> FALSE, s |-> ""]

\* [found, n]: the pointer to the level, or NULL
PmLogStringToLevel(levelStr) ==
    LET k == PrvLabelToInt(kLogLevelLabels, levelStr)
    IN IF k # 0 THEN [found |-> TRUE, n |-> kLogLevelLabels[k].n]
       ELSE [found |-> FALSE, n |-> 0]

\* number of calls tried
MaxLabelCalls == 2

\* labels tried: those of the table, the empty one, another case, a prefix,
\* a longer one and an unrelated one
LabelInputs ==
    {kLogLevelLabels[k].s : k \in 1..Len(kLogLevelLabels)}
        \cup {"", "INFO", "warn", "errors", "bogus"}

\* levels tried: two below kPmLogLevel_None up to two above kPmLogLevel_Debug
LabelLevelInputs == (kPmLogLevel_None - 2)..(kPmLogLevel_Debug + 2)

\* nothing was handed to the other function yet
NoBack == [op |-> "none"]

CallLevelToString(p, level) ==
    /\ CanCall(p)
    /\ callsLeft' = callsLeft - 1
    /\ Complete(p, [op |-> "PmLogLevelToString", level |-> level,
                    out |-> PmLogLevelToString(level), back |-> NoBack])
    /\ UNCHANGED <<regs, lockHeld, lock_fd, gGlobalsP, needInit,
                   libProcessContext, fr, cfgLeft, got, errno,
                   procOf, sigmask>>

CallStringToLevel(p, levelStr) ==
    /\ CanCall(p)
    /\ callsLeft' = callsLeft - 1
    /\ Complete(p, [op |-> "PmLogStringToLevel", levelStr |-> levelStr,
                    out |-> PmLogStringToLevel(levelStr), back |-> NoBack])
    /\ UNCHANGED <<regs, lockHeld, lock_fd, gGlobalsP, needInit,
                   libProcessContext, fr, cfgLeft, got, errno,
                   procOf, sigmask>>

\* the caller hands the label it got to PmLogStringToLevel
LabelBackToLevel(p) ==
    /\ pc[p] = "ret"
    /\ result[p].op = "PmLogLevelToString"
    /\ result[p].out.found
    /\ result[p].back = NoBack
    /\ result' = [result EXCEPT ![p].back =
                     [op |-> "PmLogStringToLevel",
                      out |-> PmLogStringToLevel(result[p].out.s)]]
    /\ UNCHANGED <<regs, lockHeld, lock_fd, gGlobalsP, needInit,
                   libProcessContext, pc, fr, callsLeft, cfgLeft, got, errno,
                   procOf, sigmask>>

\* the caller hands the level it got to PmLogLevelToString
LevelBackToLabel(p) ==
    /\ pc[p] = "ret"
    /\ result[p].op = "PmLogStringToLevel"
    /\ result[p].out.found
    /\ result[p].back = NoBack
    /\ result' = [result EXCEPT ![p].back =
                     [op |-> "PmLogLevelToString",
                      out |-> PmLogLevelToString(result[p].out.n)]]
    /\ UNCHANGED <<regs, lockHeld, lock_fd, gGlobalsP, needInit,
                   libProcessContext, pc, fr, callsLeft, cfgLeft, got, errno,
                   procOf, sigmask>>

InitLabel == InitAttached(MaxLabelCalls)

NextLabel ==
    \E p \in Procs :
        \/ \E level \in LabelLevelInputs : CallLevelToString(p, level)
        \/ \E levelStr \in LabelInputs : CallStringToLevel(p, levelStr)
        \/ LabelBackToLevel(p)
        \/ LevelBackToLabel(p)
        \/ Return(p)

SpecLabel == InitLabel /\ [][NextLabel]_vars

----------------------------------------------------------------------------
(* Progress: the processes attach and look contexts up under a scheduler   *)
(* that keeps running every process inside the library and that grants the *)
(* lock to a process for which it becomes free again and again.  Whether a *)
(* program makes another call is up to the program.                        *)

\* number of calls tried
MaxLiveCalls == 1

InitLive == InitWith(MaxLiveCalls)

\* p waits in lockf(lock_fd, F_LOCK, 0)
LockStep(p) == InitLock(p) \/ GcLock(p) \/ FcLock(p)

\* the steps of p inside the library that wait for nothing
RunStep(p) ==
    \/ InitOpen(p)
    \/ InitFtok(p)
    \/ InitShm(p)
    \/ InitSignature(p)
    \/ InitUnlock(p)
    \/ \E n \in CfgNameInputs, l \in CfgLevelStrInputs, f \in CfgFlagInputs :
          CfgEntry(p, n, l, f)
    \/ CfgSetLevel(p)
    \/ CfgInitFlags(p)
    \/ CfgSetFlag(p)
    \/ CfgDone(p)
    \/ GcScan(p)
    \/ GcAdd(p)
    \/ GcName(p)
    \/ GcDefaults(p)
    \/ GcUnlock(p)
    \/ FcScan(p)
    \/ FcUnlock(p)
    \/ Return(p)

FairScheduling ==
    \A p \in Procs : WF_vars(RunStep(p)) /\ SF_vars(LockStep(p))

SpecLive == InitLive /\ [][Next]_vars /\ FairScheduling

----------------------------------------------------------------------------
(* Logging by processes that run the constructor: each process attaches    *)
(* (or fails to) and then logs a line with PmLogString_.                   *)

\* number of calls tried
MaxHeldCalls == 1

\* PmLogString_ on the global context: a line that is written and one that
\* is refused with a diagnostic
HeldArgs ==
    {[context |-> NullH, level |-> kPmLogLevel_Error, msgid |-> m,
      kvpairs |-> NullStr, message |-> <<"m">>] : m \in {<<"I", "D">>, << >>}}

InitHeld == InitWith(MaxHeldCalls)

NextHeld ==
    \E p \in Procs :
        \/ InitOpen(p)
        \/ InitFtok(p)
        \/ InitLock(p)
        \/ InitShm(p)
        \/ InitSignature(p)
        \/ InitUnlock(p)
        \/ \E n \in CfgNameInputs, l \in CfgLevelStrInputs, f \in CfgFlagInputs :
              CfgEntry(p, n, l, f)
        \/ CfgSetLevel(p)
        \/ CfgInitFlags(p)
        \/ CfgSetFlag(p)
        \/ CfgDone(p)
        \/ GcLock(p)
        \/ GcScan(p)
        \/ GcAdd(p)
        \/ GcName(p)
        \/ GcDefaults(p)
        \/ GcUnlock(p)
        \/ \E a \in HeldArgs : PmLogString(p, a)
        \/ LogWrite(p)
        \/ Return(p)

SpecHeld == InitHeld /\ [][NextHeld]_vars

----------------------------------------------------------------------------
(* Threads: the callers are threads of one attached process, which share   *)
(* its descriptor of the lock file and its mapping of the segment, and     *)
(* call PmLogGetContext concurrently.                                      *)

\* number of calls tried
MaxThreadCalls == 2

InitThreads ==
    /\ regs = [r \in RegIds |->
                 IF r = ShmId THEN InitSharedMem(defaultSet) ELSE defaultSet]
    /\ lockHeld = {}
    /\ lock_fd = [p \in Procs |-> TRUE]
    /\ gGlobalsP = [p \in Procs |-> "shm"]
    /\ needInit = [p \in Procs |-> FALSE]
    /\ libProcessContext = [p \in Procs |-> NullH]
    /\ pc = [p \in Procs |-> "idle"]
    /\ fr = [p \in Procs |-> EmptyFrame]
    /\ result = [p \in Procs |-> NoResult]
    /\ callsLeft = MaxThreadCalls
    /\ cfgLeft = [p \in Procs |-> 0]
    /\ got = {}
    /\ errno = [p \in Procs |-> 0]
    /\ procOf = [p \in Procs |-> Min(Procs)]
    /\ sigmask = [p \in Procs |-> {}]

NextThreads ==
    \E p \in Procs :
        \/ \E n \in ValidNameInputs : CallGetContext(p, n)
        \/ GcLock(p)
        \/ GcScan(p)
        \/ GcAdd(p)
        \/ GcName(p)
        \/ GcDefaults(p)
        \/ GcUnlock(p)
        \/ Return(p)

SpecThreads == InitThreads /\ [][NextThreads]_vars

----------------------------------------------------------------------------
(* validate_json_string step by step, with the answers of jsax_parse given  *)
(* from outside                                                             *)

\* faulty size test: a text that fills json_str up to its last byte is
\* refused
FitsJsonStr_Short(next_brace_pos) == next_brace_pos < BUFFER_LEN - 1

\* the text up to next_brace_pos and its terminator fit json_str
FitsJsonStr(next_brace_pos) == next_brace_pos =< BUFFER_LEN - 1

\* "} " or "}"
SearchStr(with_tailing) == IF with_tailing THEN <<"}", " ">> ELSE <<"}">>

\* the while loop of validate_json_string with ptr_kvpairs at index from:
\* [ok, logErr, upto], upto the length of the text that parsed.  json_str is
\* zeroed and previous_pos stays 0, so jsax_parse reads the text up to
\* next_brace_pos.
RECURSIVE ValidateJsonLoop(_, _, _, _, _)
ValidateJsonLoop(kvpairs, logErr, search_str, parsable, from) ==
    LET found == {i \in from..Len(kvpairs) : IsAt(kvpairs, i, search_str)}
    IN IF found = {}
       THEN [ok |-> FALSE, logErr |-> logErr, upto |-> 0]
       ELSE LET next_brace_pos == Min(found) - 1 + Len(search_str)
            IN IF ~FitsJsonStr(next_brace_pos)
               THEN [ok |-> FALSE, logErr |-> "TooMuchData", upto |-> 0]
               ELSE IF SubSeq(kvpairs, 1, next_brace_pos) \in parsable
               THEN [ok |-> TRUE, logErr |-> logErr, upto |-> next_brace_pos]
               ELSE ValidateJsonLoop(kvpairs, logErr, search_str, parsable,
                                     Min(found) + Len(search_str))

\* validate_json_string with the texts that jsax_parse accepts as a parameter
ValidateJsonString(kvpairs, logErr, with_tailing, parsable) ==
    ValidateJsonLoop(kvpairs, logErr, SearchStr(with_tailing), parsable, 1)

\* number of calls tried
MaxJsonCalls == 1

\* the offsets just past an occurrence of search_str in kvpairs
BoundaryEnds(kvpairs, search_str) ==
    {i - 1 + Len(search_str) : i \in {j \in 1..Len(kvpairs) :
                                          IsAt(kvpairs, j, search_str)}}

\* payloads tried: "{", a filler that brings the first boundary next to the
\* end of json_str or leaves it at the start, and an ending with no, one or
\* two closing braces
JsonFillInputs == {0} \cup ((BUFFER_LEN - 5)..(BUFFER_LEN - 2))
JsonEndInputs ==
    {<< >>, <<"}">>, <<"}", " ">>, <<"}", "}">>, <<"}", " ", "}", " ">>,
     <<"}", "x", "}">>, <<"}", "}", " ">>}
JsonInputs ==
    {<<"{">> \o LongText("x", n) \o e : n \in JsonFillInputs, e \in JsonEndInputs}

\* answers of jsax_parse tried: any choice of the texts up to a boundary,
\* and the texts of ParsableJson
OracleInputs(kvpairs, with_tailing) ==
    {ParsableJson} \cup
    {{SubSeq(kvpairs, 1, e) : e \in ends} :
        ends \in SUBSET BoundaryEnds(kvpairs, SearchStr(with_tailing))}

CallValidateJson(p, kvpairs, logErr, with_tailing, parsable) ==
    /\ CanCall(p)
    /\ callsLeft' = callsLeft - 1
    /\ Complete(p, [op |-> "validate_json_string", kvpairs |-> kvpairs,
                    logErr |-> logErr, with_tailing |-> with_tailing,
                    parses |-> {e \in BoundaryEnds(kvpairs,
                                                   SearchStr(with_tailing)) :
                                   SubSeq(kvpairs, 1, e) \in parsable},
                    real |-> parsable = ParsableJson,
                    out |-> ValidateJsonString(kvpairs, logErr, with_tailing,
                                               parsable)])
    /\ UNCHANGED <<regs, lockHeld, lock_fd, gGlobalsP, needInit,
                   libProcessContext, fr, cfgLeft, got, errno,
                   procOf, sigmask>>

InitJson == InitAttached(MaxJsonCalls)

NextJson ==
    \E p \in Procs :
        \/ \E kvpairs \in JsonInputs, logErr \in {"None", "EmptyMsgID"},
              with_tailing \in BOOLEAN :
              \E parsable \in OracleInputs(kvpairs, with_tailing) :
                  CallValidateJson(p, kvpairs, logErr, with_tailing, parsable)
        \/ Return(p)

SpecJson == InitJson /\ [][NextJson]_vars

----------------------------------------------------------------------------
(* Logging calls with an empty, a missing and a proper message id, with     *)
(* key-value arguments that pass and that fail their checks, at enabled and *)
(* disabled levels                                                          *)

\* number of calls tried
MaxEmptyCalls == 2

EmptyIdLevelInputs == {kPmLogLevel_Error, kPmLogLevel_Info, kPmLogLevel_Debug}

EmptyIdInputs == {NullStr, << >>, <<"I", "D">>}

\* PmLogString_: the key-value text NULL, an object and an unfinished object
EmptyIdStringArgs ==
    {[context |-> NullH, level |-> l, msgid |-> m, kvpairs |-> kv, message |-> msg] :
        l \in EmptyIdLevelInputs, m \in EmptyIdInputs,
        kv \in {NullStr, <<"{", "}">>, <<"{">>}, msg \in {NullStr, <<"m">>}}

\* _PmLogMsgKV: key lists and check formats that pass and that fail
EmptyIdMsgKVArgs ==
    {[context |-> NullH, level |-> l, flags |-> {}, msgid |-> m, kv_count |-> n,
      check_keywords |-> kw, check_formats |-> cf, fmt |-> f] :
        l \in EmptyIdLevelInputs, m \in EmptyIdInputs, n \in {0, 1},
        kw \in {<<"k">>, <<"\t">>}, cf \in {<<"%", "d">>, <<"d">>},
        f \in {<<"{", "}", " ", "m">>, <<"m">>}}

InitEmptyId == InitAttached(MaxEmptyCalls)

NextEmptyId ==
    \E p \in Procs :
        \/ \E level \in ThresholdInputs : PmLogSetContextLevel(p, NullH, level)
        \/ \E a \in EmptyIdStringArgs : PmLogString(p, a)
        \/ \E a \in EmptyIdMsgKVArgs : PmLogMsgKV(p, a)
        \/ LogWrite(p)
        \/ Return(p)

SpecEmptyId == InitEmptyId /\ [][NextEmptyId]_vars

----------------------------------------------------------------------------
(* PrvLogWrite statement by statement, with the signal mask of the calling  *)
(* thread: block_signals, syslog, unblock_signals, the console echo and     *)
(* Exit.  LogWrite above is the same function in one step, which leaves the *)
(* mask as it finds it.  SIGKILL and SIGSTOP can be neither blocked nor     *)
(* caught and are left out.                                                 *)

\* the signals a thread can block, among those used
Signals == {"SIGINT", "SIGTERM"}

\* sigfillset(&new_set)
sigfillset == Signals

\* faulty restore: the thread is left with no signal blocked
unblock_signals_None(old_set) == {}

\* the mask of the thread after pthread_sigmask(SIG_SETMASK, old_set, NULL)
unblock_signals(old_set) == old_set

\* number of calls tried
MaxSigCalls == 2

\* the program's own code sets the mask of its thread before it logs
SetSigMask(p, m) ==
    /\ CanCall(p)
    /\ sigmask[p] # m
    /\ sigmask' = [sigmask EXCEPT ![p] = m]
    /\ UNCHANGED <<regs, lockHeld, lock_fd, gGlobalsP, needInit,
                   libProcessContext, pc, fr, result, callsLeft, cfgLeft,
                   got, errno, procOf>>

\* savedErrNo = errno, HandleLogLibCommand does not take the line, and
\* block_signals(&old_set): the mask is kept in old_set and every signal is
\* blocked
WrBlock(p) ==
    /\ pc[p] = "log_write"
    /\ ~IsLoadConf(fr[p].s)
    /\ fr' = [fr EXCEPT ![p] = [old_set |-> sigmask[p],
                                savedErrNo |-> errno[p],
                                sent |-> << >>] @@ fr[p]]
    /\ sigmask' = [sigmask EXCEPT ![p] = sigfillset]
    /\ pc' = [pc EXCEPT ![p] = "syslog"]
    /\ UNCHANGED <<regs, lockHeld, lock_fd, gGlobalsP, needInit,
                   libProcessContext, result, callsLeft, cfgLeft, got, errno,
                   procOf>>

\* syslog(level, ...): the line is handed to the sink, which leaves any
\* value in errno
WrSyslog(p) ==
    /\ pc[p] = "syslog"
    /\ fr' = [fr EXCEPT ![p].sent =
                 <<SyslogLine(G(p), fr[p].contextP, fr[p].level, fr[p].msgid,
                              fr[p].s)>>]
    /\ \E e \in ErrnoValues : errno' = [errno EXCEPT ![p] = e]
    /\ pc' = [pc EXCEPT ![p] = "unblock_signals"]
    /\ UNCHANGED <<regs, lockHeld, lock_fd, gGlobalsP, needInit,
                   libProcessContext, result, callsLeft, cfgLeft, got,
                   procOf, sigmask>>

\* unblock_signals(&old_set), the echo to the console streams, and Exit
WrUnblock(p) ==
    /\ pc[p] = "unblock_signals"
    /\ sigmask' = [sigmask EXCEPT ![p] = unblock_signals(fr[p].old_set)]
    /\ Complete(p, [LogResult(fr[p].op, fr[p].args, "None", "PrvLogWrite",
                              fr[p].sent,
                              ConsoleStreams(G(p), fr[p].contextP, fr[p].level))
                       EXCEPT !.excerpts = fr[p].excerpts])
    /\ fr' = [fr EXCEPT ![p] = EmptyFrame]
    /\ errno' = [errno EXCEPT ![p] = ErrnoAtExit(fr[p].savedErrNo, errno[p])]
    /\ UNCHANGED <<regs, lockHeld, lock_fd, gGlobalsP, needInit,
                   libProcessContext, callsLeft, cfgLeft, got, procOf>>

\* PmLogString_ and _PmLogMsgKV at the info and debug levels, with lines
\* that are written and lines that are refused
SigStringArgs ==
    {[context |-> NullH, level |-> l, msgid |-> m, kvpairs |-> NullStr,
      message |-> <<"m">>] :
        l \in {kPmLogLevel_Info, kPmLogLevel_Debug},
        m \in {NullStr, << >>, <<"I", "D">>}}

SigMsgKVArgs ==
    {[context |-> NullH, level |-> kPmLogLevel_Info, flags |-> {},
      msgid |-> <<"I", "D">>, kv_count |-> n, check_keywords |-> <<"k">>,
      check_formats |-> <<"%", "d">>, fmt |-> <<"{", "}", " ", "m">>] :
        n \in {0, 1}}

InitSig == InitAttached(MaxSigCalls)

NextSig ==
    \E p \in Procs :
        \/ \E m \in SUBSET Signals : SetSigMask(p, m)
        \/ \E a \in SigStringArgs : PmLogString(p, a)
        \/ \E a \in SigMsgKVArgs : PmLogMsgKV(p, a)
        \/ WrBlock(p)
        \/ WrSyslog(p)
        \/ WrUnblock(p)
        \/ Return(p)

SpecSig == InitSig /\ [][NextSig]_vars

----------------------------------------------------------------------------
(* Properties of the registry                                              *)

\* the contexts registered in g: the global context and user contexts
\* 0..numUserContexts-1
Registered(g) == {GlobalH} \cup {UserH(i) : i \in 0..(g.numUserContexts - 1)}

\* the registries that hold a context table
LiveRegs == {r \in RegIds : regs[r].signature = PMLOG_SIGNATURE}

\* TRUE iff no context registered in g is named name
Unregistered(g, name) == \A h \in Registered(g) : Ctx(g, h).component # name

\* C1: in every reachable state no two registered contexts of a registry
\* (its global context and its user contexts 0..numUserContexts-1) have the
\* same name, whatever the interleaving of PmLogGetContext calls
C1_UniqueNames ==
    \A r \in LiveRegs : \A h1, h2 \in Registered(regs[r]) :
        h1 # h2 => Ctx(regs[r], h1).component # Ctx(regs[r], h2).component

\* two attached processes are inside PmLogGetContext for the same new name,
\* one creating it under the lock, the other waiting for the lock
C1_Witness ==
    \E p, q \in Procs :
        /\ p # q
        /\ gGlobalsP[p] = "shm" /\ gGlobalsP[q] = "shm"
        /\ pc[p] = "gc_name" /\ pc[q] = "gc_lock"
        /\ fr[p].name = NameAB /\ fr[q].name = NameAB

\* C2: in every reachable state 0 <= numUserContexts <= maxUserContexts in
\* every registry, whatever the interleaving of attach and PmLogGetContext
C2_CountInRange ==
    \A r \in RegIds :
        /\ 0 =< regs[r].numUserContexts
        /\ regs[r].numUserContexts =< regs[r].maxUserContexts

\* the shared table is full and a PmLogGetContext call for a new name has
\* just declined to add to it
C2_Witness ==
    \E p \in Procs :
        /\ gGlobalsP[p] = "shm"
        /\ pc[p] = "gc_unlock" /\ fr[p].theContextP = NullH
        /\ regs[ShmId].numUserContexts = MaxUserContexts
        /\ regs[ShmId].maxUserContexts = MaxUserContexts

\* TRUE iff the returns recorded in s give one handle per registry and name
GotFunctional(s) ==
    \A e1, e2 \in s : (e1[1] = e2[1] /\ e1[2] = e2[2]) => e1[3] = e2[3]

\* C3: PmLogGetContext is idempotent: all the calls made with one name on one
\* registry, by whichever process and with whatever happens in between,
\* return the same handle, and a step that raises the context count is never
\* taken for a name a call has already returned a handle for
C3_Idempotent ==
    [][/\ GotFunctional(got')
       /\ \A p \in Procs :
             (/\ pc'[p] # pc[p]
              /\ regs'[RegOf(p)].numUserContexts > regs[RegOf(p)].numUserContexts)
             => ~\E e \in got : e[1] = RegOf(p) /\ e[2] = fr[p].name]_vars

\* a later PmLogGetContext call is about to return the user context handle
\* an earlier call with the same name returned
C3_Witness ==
    \E p \in Procs :
        /\ pc[p] = "gc_unlock"
        /\ fr[p].theContextP.kind = "user"
        /\ <<RegOf(p), fr[p].name, fr[p].theContextP>> \in got

\* p is inside PmLogGetContext, past the lock, with a name that is not
\* registered, the table of its registry being full
AtCapacityNewName(p) ==
    /\ pc[p] \in {"gc_scan", "gc_unlock"}
    /\ G(p).numUserContexts = G(p).maxUserContexts
    /\ Unregistered(G(p), fr[p].name)

\* C4: once numUserContexts = maxUserContexts, a PmLogGetContext call with a
\* name that is not registered changes nothing in any registry (count, names,
\* levels, flags) and returns the handle of the global context
C4_CapacityFallback ==
    [][\A p \in Procs :
          (AtCapacityNewName(p) /\ pc'[p] # pc[p]) =>
             /\ regs' = regs
             /\ (pc[p] = "gc_scan") => (pc'[p] = "gc_unlock")
             /\ (pc[p] = "gc_unlock") =>
                   IF fr[p].cont = "idle"
                   THEN /\ pc'[p] = "ret"
                        /\ result'[p].op = "GetContext"
                        /\ result'[p].name = fr[p].name
                        /\ result'[p].handle = GlobalH
                   ELSE fr'[p].context = GlobalH]_vars

\* a public PmLogGetContext call with the unregistered name A.B has returned
\* the global context, the table being full
C4_Witness ==
    \E p \in Procs :
        /\ pc[p] = "ret"
        /\ result[p].op = "GetContext" /\ result[p].name = NameAB
        /\ result[p].handle = GlobalH
        /\ G(p).numUserContexts = G(p).maxUserContexts
        /\ Unregistered(G(p), NameAB)

\* C5: when the table is full and the name is new, PmLogGetContext returns,
\* with the handle of the global context, an error code other than
\* kPmLogErr_None
C5_CapacityReported ==
    \A p \in Procs :
        (/\ pc[p] = "ret"
         /\ result[p].op = "GetContext"
         /\ gGlobalsP[p] # "NULL"
         /\ PrvValidateContextName(result[p].name) = "None"
         /\ G(p).numUserContexts = G(p).maxUserContexts
         /\ Unregistered(G(p), result[p].name))
        => (result[p].handle = GlobalH /\ result[p].err # "None")

\* TRUE iff every PmLogFindContext step agrees with the returns recorded in
\* entries: a lookup that runs after PmLogGetContext(name) returned h finds
\* h, and what the lookup found is returned with kPmLogErr_None
FindAgrees(entries) ==
    \A p \in Procs :
        /\ (pc[p] = "fc_scan" /\ pc'[p] # pc[p]) =>
              \A e \in entries :
                 (e[1] = RegOf(p) /\ e[2] = fr[p].name)
                 => fr'[p].theContextP = e[3]
        /\ (pc[p] = "fc_unlock" /\ pc'[p] # pc[p] /\ fr[p].theContextP # NullH) =>
              /\ result'[p].op = "FindContext"
              /\ result'[p].name = fr[p].name
              /\ result'[p].err = "None"
              /\ result'[p].handle = fr[p].theContextP

\* the returns of PmLogGetContext that handed out the context it found or
\* created, not the global context as the fallback of a full table
GotNamed == {e \in got : e[3] # GlobalH \/ e[2] = kPmLogGlobalContextName}

\* C6 (as amended): if PmLogGetContext(name) returned the handle h of the
\* context named name, found or created, a following PmLogFindContext(name)
\* returns kPmLogErr_None with the same handle h
C6_FindAfterGet == [][FindAgrees(GotNamed)]_vars

\* C6 (as claimed): if PmLogGetContext(name) returned handle h, whichever
\* way, a following PmLogFindContext(name) returns kPmLogErr_None with h
C6_FindAfterAnyGet == [][FindAgrees(got)]_vars

\* PmLogFindContext has returned, with kPmLogErr_None, the user context
\* PmLogGetContext created for the name A.B
C6_Witness ==
    \E p \in Procs :
        /\ pc[p] = "ret"
        /\ result[p].op = "FindContext" /\ result[p].name = NameAB
        /\ result[p].err = "None" /\ result[p].handle.kind = "user"
        /\ <<RegOf(p), NameAB, result[p].handle>> \in got

\* the proper ancestors of a name: what stands before each of its dots
Ancestors(name) ==
    {SubSeq(name, 1, k - 1) : k \in {j \in 1..Len(name) : name[j] = "."}}

\* the context a new context named name takes its level and flags from: the
\* user context of g named as the longest registered ancestor of name, the
\* global context when no ancestor is registered
NearestAncestor(g, name) ==
    LET named(a) == {i \in 0..(g.numUserContexts - 1) :
                        g.userContexts[i].component = a}
        known == {a \in Ancestors(name) : named(a) # {}}
    IN IF known = {} THEN g.globalContext
       ELSE g.userContexts[
               Min(named(CHOOSE a \in known : \A b \in known : Len(b) =< Len(a)))]

\* C7: a context created by PmLogGetContext starts with the level and the
\* flags of its nearest registered ancestor (ancestors that are not
\* registered are skipped), and with those of the global context when no
\* ancestor is registered
C7_InheritsNearestAncestor ==
    [][\A p \in Procs :
          (pc[p] = "gc_defaults" /\ pc'[p] # pc[p]) =>
             LET r == RegOf(p)
                 i == fr[p].theContextP.i
                 from == NearestAncestor(regs[r], fr[p].name)
             IN /\ regs'[r].userContexts[i].component = fr[p].name
                /\ regs'[r].userContexts[i].enabledLevel = from.enabledLevel
                /\ regs'[r].userContexts[i].flags = from.flags]_vars

\* A.B.C has been created with the level debug of A, set by the
\* configuration, A.B not being registered and the global level being info
C7_Witness ==
    \E p \in Procs :
        /\ pc[p] = "gc_unlock"
        /\ fr[p].name = NameABC /\ fr[p].theContextP.kind = "user"
        /\ Ctx(G(p), fr[p].theContextP).component = NameABC
        /\ Ctx(G(p), fr[p].theContextP).enabledLevel = kPmLogLevel_Debug
        /\ G(p).globalContext.enabledLevel = kPmLogLevel_Info
        /\ Unregistered(G(p), NameAB)
        /\ \E h \in Registered(G(p)) :
              /\ Ctx(G(p), h).component = NameA
              /\ Ctx(G(p), h).enabledLevel = kPmLogLevel_Debug

\* C8: the table is append-only: no step lowers numUserContexts, renames the
\* global context, or changes the name written at a registered index, so
\* that a handle (an index) keeps denoting the context of the same name
C8_AppendOnly ==
    [][\A r \in RegIds :
          (regs[r].signature = PMLOG_SIGNATURE) =>
             /\ regs'[r].signature = PMLOG_SIGNATURE
             /\ regs'[r].numUserContexts >= regs[r].numUserContexts
             /\ regs'[r].globalContext.component = regs[r].globalContext.component
             /\ \A i \in 0..(regs[r].numUserContexts - 1) :
                   (regs[r].userContexts[i].component # << >>) =>
                      (regs'[r].userContexts[i].component =
                          regs[r].userContexts[i].component)]_vars

\* the shared table has grown to the library context, A and A.B, in the
\* order of their creation
C8_Witness ==
    /\ regs[ShmId].numUserContexts = 3
    /\ regs[ShmId].userContexts[0].component = kPmLogDefaultLibContextName
    /\ regs[ShmId].userContexts[1].component = NameA
    /\ regs[ShmId].userContexts[2].component = NameAB

\* the operations that hand back a PmLogErr about the registry
RegistryOps ==
    {"GetContext", "GetContextNull", "FindContext", "GetNumContexts",
     "GetIndContext"}

\* C9: a process that found a foreign signature at attach gets an error from
\* every operation, none of which reads or writes through the NULL gGlobalsP:
\* the registry operations return kPmLogErr_Unknown, the level operations an
\* error, and no call ends the process
C9_UnusableFailsClean ==
    \A p \in Procs :
        (gGlobalsP[p] = "NULL") =>
           /\ pc[p] # "crashed"
           /\ (pc[p] = "ret" /\ result[p].op \in RegistryOps)
                 => (result[p].err = "Unknown")
           /\ (pc[p] = "ret"
                  /\ result[p].op \in {"SetContextLevel", "GetContextLevel"})
                 => (result[p].err # "None")

\* the registry the first attach leaves in the segment
FirstAttachRegistry(g) ==
    /\ g.signature = PMLOG_SIGNATURE
    /\ g.globalContext.enabledLevel = kPmLogLevel_Info
    /\ g.globalContext.flags = {}
    /\ g.numUserContexts = 1
    /\ g.userContexts[0].component = kPmLogDefaultLibContextName
    /\ g.userContexts[0].enabledLevel = kPmLogLevel_Info
    /\ g.userContexts[0].flags = {}
    /\ g.consoleConf = [stdErrMinLevel |-> kPmLogLevel_Emergency,
                        stdErrMaxLevel |-> kPmLogLevel_Error,
                        stdOutMinLevel |-> kPmLogLevel_Warning,
                        stdOutMaxLevel |-> kPmLogLevel_Debug]

\* C10: when init_function finds signature zero, the process is marked
\* needInit and, from the initialisation to the release of the lock, the
\* segment holds the magic signature, the global context at info with no
\* flags, exactly one user context (the library context at index 0, info, no
\* flags) and the console thresholds of the template
C10_FirstAttach ==
    [][\A p \in Procs :
          /\ (pc[p] = "init_sig" /\ regs[ShmId].signature = 0 /\ pc'[p] # pc[p]) =>
                /\ needInit'[p]
                /\ pc'[p] = "init_unlock"
                /\ FirstAttachRegistry(regs'[ShmId])
          /\ (pc[p] = "init_unlock" /\ needInit[p] /\ pc'[p] # pc[p]) =>
                /\ FirstAttachRegistry(regs'[ShmId])
                /\ p \notin lockHeld'
                /\ needInit'[p]]_vars

\* the first attach has released the lock and is about to load the
\* configuration
C10_Witness ==
    \E p \in Procs :
        /\ pc[p] = "cfg_idle" /\ cfgLeft[p] = MaxCfgEntries
        /\ needInit[p] /\ p \notin lockHeld
        /\ FirstAttachRegistry(regs[ShmId])

----------------------------------------------------------------------------
(* C11: a process whose constructor finds the expected signature in the    *)
(* segment changes no field of the registry in any step of its attach, and *)
(* its attach ends without running the configuration loader.               *)

InitPcs == {"init_open", "init_ftok", "init_lock", "init_shm", "init_sig",
            "init_unlock"}

\* p takes a step of its constructor on a segment it finds initialised
AttachStepOnMagic(p) ==
    /\ pc[p] \in InitPcs
    /\ pc'[p] # pc[p]
    /\ regs[ShmId].signature = PMLOG_SIGNATURE
    /\ ~needInit[p]

C11_AttachOnMagicFrame ==
    [][\A p \in Procs :
          AttachStepOnMagic(p) =>
              /\ regs'[ShmId] = regs[ShmId]
              /\ ~needInit'[p]
              /\ pc'[p] \in InitPcs \cup {"idle"}]_vars

\* a further process has attached to a registry that already holds a
\* context created after the first-time initialisation
C11_Witness ==
    \E p \in Procs :
        /\ pc[p] = "init_unlock"
        /\ gGlobalsP[p] = "shm"
        /\ ~needInit[p]
        /\ regs[ShmId].numUserContexts >= 2

----------------------------------------------------------------------------
(* C12: over all the processes attaching to one segment, the constructor   *)
(* starts the configuration loader exactly once: the process that found    *)
(* signature zero starts it when it leaves the constructor, and a process  *)
(* that found the expected or a foreign signature never starts it.         *)

\* p leaves the constructor into the configuration loader
LoaderTriggered(p) == pc[p] = "init_unlock" /\ pc'[p] = "cfg_idle"

C12_LoaderOnce ==
    [][\A p \in Procs :
          /\ (pc[p] = "init_sig" /\ pc'[p] # pc[p]) =>
                 (needInit'[p] <=> regs[ShmId].signature = 0)
          /\ (pc[p] = "init_unlock" /\ pc'[p] # pc[p]) =>
                 (LoaderTriggered(p) <=> needInit[p])
          /\ LoaderTriggered(p) => \A q \in Procs \ {p} : ~needInit[q]
          /\ (pc'[p] = "cfg_idle" /\ pc[p] \in InitPcs) => LoaderTriggered(p)
          /\ (needInit[p] => needInit'[p])]_vars

\* both processes are attached to the segment; one of them ran the loader
C12_Witness ==
    \E p, q \in Procs :
        /\ p # q
        /\ needInit[p] /\ pc[p] \in {"cfg_idle", "idle"}
        /\ ~needInit[q] /\ pc[q] = "idle"
        /\ gGlobalsP[p] = "shm" /\ gGlobalsP[q] = "shm"

----------------------------------------------------------------------------
(* C14: PmLogSetContextLevel on a context of the caller's registry, with a *)
(* level that is neither emerg..debug nor the None sentinel, returns       *)
(* InvalidLevel and changes nothing; with a level in emerg..debug or None  *)
(* it returns None and changes the level of that one context only.         *)

AllContexts == {GlobalH} \cup {UserH(i) : i \in 0..(MaxUserContexts - 1)}

InSeverityRange(level) == level \in kPmLogLevel_Emergency..kPmLogLevel_Debug

\* g2 is g but for the level of the context h, which is level
OnlyLevelSet(g, g2, h, level) ==
    /\ g2.signature = g.signature
    /\ g2.maxUserContexts = g.maxUserContexts
    /\ g2.numUserContexts = g.numUserContexts
    /\ g2.contextLogging = g.contextLogging
    /\ g2.consoleConf = g.consoleConf
    /\ g2.devMode = g.devMode
    /\ \A c \in AllContexts \ {h} : Ctx(g2, c) = Ctx(g, c)
    /\ Ctx(g2, h).component = Ctx(g, h).component
    /\ Ctx(g2, h).flags = Ctx(g, h).flags
    /\ Ctx(g2, h).enabledLevel = level

C14_SetLevel ==
    [][\A p \in Procs :
          (pc[p] = "idle" /\ result'[p].op = "SetContextLevel"
             /\ PrvResolveContext(p, result'[p].handle) # NullH) =>
          LET h == PrvResolveContext(p, result'[p].handle)
              level == result'[p].n
          IN IF InSeverityRange(level) \/ level = kPmLogLevel_None
             THEN /\ result'[p].err = "None"
                  /\ OnlyLevelSet(regs[RegOf(p)], regs'[RegOf(p)], h, level)
                  /\ \A r \in RegIds \ {RegOf(p)} : regs'[r] = regs[r]
             ELSE /\ result'[p].err = "InvalidLevel"
                  /\ regs' = regs]_vars

\* one call was refused for its level while another one set a level
C14_Witness ==
    \E p, q \in Procs :
        /\ result[p].op = "SetContextLevel"
        /\ result[p].err = "InvalidLevel"
        /\ result[q].op = "SetContextLevel"
        /\ result[q].err = "None"
        /\ Ctx(G(q), PrvResolveContext(q, result[q].handle)).enabledLevel
               = kPmLogLevel_Error

----------------------------------------------------------------------------
(* C18: validate_msgid yields InvalidMsgID for a NULL id, for an id that   *)
(* holds a space, '{' or '}' and for every id of 32 characters or more,    *)
(* EmptyMsgID for the empty id, and accepts every other id.                *)

MsgIdRule(msgid) ==
    IF msgid = NullStr THEN "InvalidMsgID"
    ELSE IF Len(msgid) = 0 THEN "EmptyMsgID"
    ELSE IF Len(msgid) >= 32 THEN "InvalidMsgID"
    ELSE IF \E i \in 1..Len(msgid) : msgid[i] \in {" ", "{", "}"}
         THEN "InvalidMsgID"
    ELSE "None"

C18_MsgIdRule ==
    \A p \in Procs :
        result[p].op = "validate_msgid" =>
            result[p].err = MsgIdRule(result[p].msgid)

----------------------------------------------------------------------------
(* C20: a counted-key-value call at a non-debug level with kv_count > 0    *)
(* that reaches the format check passes it iff the check format holds      *)
(* kv_count conversions (kv_count + 1 with the with-clock flag), a '%%'    *)
(* not counting as one; a call that fails the check returns InvalidFormat  *)
(* and writes no line.                                                     *)

\* the longest run of '%' that starts at index i of f ends at index j
PercentRun(f, i, j) ==
    /\ \A k \in i..j : f[k] = "%"
    /\ (i = 1 \/ f[i - 1] # "%")
    /\ (j = Len(f) \/ f[j + 1] # "%")

\* conversions of f: a run of n '%' holds n \div 2 literal '%%' and, if n is
\* odd, one conversion
Conversions(f) ==
    Cardinality({i \in 1..Len(f) :
                    \E j \in i..Len(f) :
                        PercentRun(f, i, j) /\ (j - i + 1) % 2 = 1})

FormatAgrees(a) ==
    /\ a.check_formats # NullStr
    /\ Conversions(a.check_formats) =
           IF kPmLogValidateFormatFlag_LogWithClock \in a.flags
           THEN a.kv_count + 1
           ELSE a.kv_count

\* the checks that come before the format check
BeforeFormatCheck ==
    {"PrvResolveContext", "PrvCheckContext", "validate_msgid", "validate_keys"}

\* p is handed the result of a call that reached the format check, or is
\* writing the line of such a call
ReachedFormatCheck(op, a, stage) ==
    /\ op = "_PmLogMsgKV"
    /\ a.level # kPmLogLevel_Debug
    /\ a.kv_count > 0
    /\ stage \notin BeforeFormatCheck

C20_FormatAgreement ==
    \A p \in Procs :
        /\ (pc[p] = "ret"
              /\ ReachedFormatCheck(result[p].op, result[p].args, result[p].stage)) =>
               /\ (result[p].stage # "validate_format"
                      <=> FormatAgrees(result[p].args))
               /\ (result[p].stage = "validate_format" =>
                      /\ result[p].err = "InvalidFormat"
                      /\ result[p].syslog = << >>
                      /\ result[p].console = {})
        /\ (pc[p] = "log_write" /\ fr[p].op = "_PmLogMsgKV"
              /\ fr[p].args.level # kPmLogLevel_Debug /\ fr[p].args.kv_count > 0) =>
               FormatAgrees(fr[p].args)

\* a call with kv_count = 2 and one conversion was refused while one with
\* two conversions has been written
C20_Witness ==
    \E p, q \in Procs :
        /\ pc[p] = "ret" /\ result[p].op = "_PmLogMsgKV"
        /\ result[p].args.kv_count = 2
        /\ result[p].args.check_formats = <<"%", "d">>
        /\ result[p].err = "InvalidFormat"
        /\ pc[q] = "ret" /\ result[q].op = "_PmLogMsgKV"
        /\ result[q].args.kv_count = 2
        /\ result[q].args.check_formats = <<"%", "d", "%", "d">>
        /\ result[q].err = "None"
        /\ Len(result[q].syslog) = 1

----------------------------------------------------------------------------
(* C13: a logging call at level L on a context with threshold T returns    *)
(* InvalidLevel when L is outside emerg..debug, otherwise LevelDisabled    *)
(* when L > T, and otherwise goes on to the message checks and the write;  *)
(* with T = None no call gets that far.                                    *)

LogOps == {"PmLogString_", "_PmLogMsgKV"}

\* p enters a logging call in this step: it is refused or goes on to write
LogCallStep(p) ==
    /\ pc[p] = "idle"
    /\ \/ pc'[p] = "ret" /\ result'[p].op \in LogOps
       \/ pc'[p] = "log_write"

\* the call that p enters was refused with err in this step and wrote nothing
RefusedWith(p, err) ==
    /\ pc'[p] = "ret"
    /\ result'[p].err = err
    /\ result'[p].syslog = << >>
    /\ result'[p].console = {}

\* the call that p enters got past the level gate
PastGate(p) ==
    \/ pc'[p] = "log_write"
    \/ pc'[p] = "ret" /\ result'[p].stage \notin {"PrvResolveContext", "PrvCheckContext"}

C13_LevelGating ==
    [][\A p \in Procs :
          LogCallStep(p) =>
              LET a == IF pc'[p] = "ret" THEN result'[p].args ELSE fr'[p].args
                  T == Ctx(G(p), PrvResolveContext(p, a.context)).enabledLevel
              IN IF ~InSeverityRange(a.level) THEN RefusedWith(p, "InvalidLevel")
                 ELSE IF a.level > T THEN RefusedWith(p, "LevelDisabled")
                 ELSE PastGate(p)]_vars

\* with the threshold at warning a call at info was refused and a call at
\* err was written
C13_Witness ==
    \E p, q \in Procs :
        /\ regs[ShmId].globalContext.enabledLevel = kPmLogLevel_Warning
        /\ pc[p] = "ret"
        /\ result[p].op \in LogOps
        /\ result[p].args.level = kPmLogLevel_Info
        /\ result[p].err = "LevelDisabled"
        /\ pc[q] = "ret"
        /\ result[q].op \in LogOps
        /\ result[q].args.level = kPmLogLevel_Error
        /\ result[q].err = "None"
        /\ Len(result[q].syslog) = 1

----------------------------------------------------------------------------
(* C19: at the debug level, enabled for the context, a logging call that   *)
(* carries a message id or a key-value payload returns InvalidFormat and   *)
(* writes nothing.  A debug call with neither is written under the fixed   *)
(* message id DEBUG_MSG_ID, except that PmLogString_ with a NULL message   *)
(* returns InvalidFormat as well.                                          *)

\* the operation and the arguments of the call that p enters in this step
EnteredOp(p) == IF pc'[p] = "ret" THEN result'[p].op ELSE fr'[p].op
EnteredArgs(p) == IF pc'[p] = "ret" THEN result'[p].args ELSE fr'[p].args

\* p enters a logging call at the debug level on a context that enables it
DebugCallStep(p) ==
    /\ LogCallStep(p)
    /\ EnteredArgs(p).level = kPmLogLevel_Debug
    /\ Ctx(G(p), PrvResolveContext(p, EnteredArgs(p).context)).enabledLevel
           >= kPmLogLevel_Debug

HasIdOrPayload(op, a) ==
    \/ a.msgid # NullStr
    \/ op = "PmLogString_" /\ a.kvpairs # NullStr
    \/ op = "_PmLogMsgKV" /\ a.kv_count # 0

\* the call that p enters goes on to PrvLogWrite under the stand-in id
WrittenAsDebug(p) ==
    /\ pc'[p] = "log_write"
    /\ fr'[p].msgid = DEBUG_MSG_ID

\* PrvLogWrite of a debug line hands it to syslog under the stand-in id
DebugWriteStep(p) ==
    (pc[p] = "log_write" /\ pc'[p] = "ret" /\ fr[p].level = kPmLogLevel_Debug) =>
        /\ result'[p].err = "None"
        /\ Len(result'[p].syslog) = 1
        /\ result'[p].syslog[1].msgid = DEBUG_MSG_ID
        /\ result'[p].syslog[1].level = kPmLogLevel_Debug

C19_DebugRule ==
    [][\A p \in Procs :
          /\ DebugCallStep(p) =>
                IF HasIdOrPayload(EnteredOp(p), EnteredArgs(p))
                THEN RefusedWith(p, "InvalidFormat")
                ELSE IF EnteredOp(p) = "PmLogString_"
                          /\ EnteredArgs(p).message = NullStr
                THEN RefusedWith(p, "InvalidFormat")
                ELSE WrittenAsDebug(p)
          /\ DebugWriteStep(p)]_vars

\* the rule as claimed: every debug call without id and payload is written
C19_DebugRuleAnyMessage ==
    [][\A p \in Procs :
          /\ DebugCallStep(p) =>
                IF HasIdOrPayload(EnteredOp(p), EnteredArgs(p))
                THEN RefusedWith(p, "InvalidFormat")
                ELSE WrittenAsDebug(p)
          /\ DebugWriteStep(p)]_vars

\* with the threshold at debug, a debug call with a message id was refused
\* and a debug call without id and payload was written
C19_Witness ==
    \E p, q \in Procs :
        /\ pc[p] = "ret"
        /\ result[p].op \in LogOps
        /\ result[p].args.level = kPmLogLevel_Debug
        /\ result[p].err = "InvalidFormat"
        /\ result[p].stage = "debug msgid"
        /\ pc[q] = "ret"
        /\ result[q].op \in LogOps
        /\ result[q].args.level = kPmLogLevel_Debug
        /\ result[q].err = "None"
        /\ result[q].syslog[1].msgid = DEBUG_MSG_ID

----------------------------------------------------------------------------
(* The loadconf command                                                    *)

\* the line PrvLogWrite of process p was handed, while it is handling it
DispatchedLine(p) ==
    IF pc[p] = "log_write" THEN fr[p].s
    ELSE IF pc[p] \in {"cmd_numctx", "cmd_loop", "cmd_copy"} THEN fr[p].saved.s
    ELSE << >>

\* C17: every line handed to PrvLogWrite that begins with the command prefix
\* "!loglib " is taken as a command: when PrvLogWrite returns, the line was
\* written neither to syslog nor to a console stream
C17_CommandIntercepted ==
    [][\A p \in Procs :
          (HasCmdPrefix(DispatchedLine(p)) /\ pc'[p] = "ret")
              => (result'[p].syslog = << >> /\ result'[p].console = {})]_vars

\* process p has finished the loadconf command (configuration loader, then the
\* loop over all context indices) and HandleLogLibCommand is about to return
ReloadComplete(p) ==
    /\ pc[p] = "cmd_loop"
    /\ fr[p].contextIndex >= fr[p].contextsNumber

\* no other process has taken a step since p took the command
Undisturbed(p) ==
    \A q \in Procs \ {p} :
        /\ fr[p].before.pc[q] = "idle"
        /\ pc[q] = "idle"
        /\ fr[p].before.cfgLeft[q] = cfgLeft[q]
        /\ fr[p].before.callsLeft = callsLeft

\* the registry of process p when it took the command
RegistryBefore(p) == fr[p].before.regs[RegOf(p)]

\* the contexts whose flags were marked Overridden when p took the command
OverriddenBefore(p) ==
    {h \in Registered(RegistryBefore(p)) :
        kPmLogFlag_Overridden \in Ctx(RegistryBefore(p), h).flags}

\* C15: a context whose flags were set explicitly (and so marked Overridden)
\* has the same flags after a reload, the configuration loader followed by
\* the propagation of the global flags, as it had before the reload
C15_OverriddenSurvivesReload ==
    \A p \in Procs :
        (ReloadComplete(p) /\ Undisturbed(p))
            => \A h \in OverriddenBefore(p) :
                   Ctx(G(p), h).flags = Ctx(RegistryBefore(p), h).flags

\* every registered context of g that is not marked Overridden has the flags
\* of the global context
FlagsPropagated(g) ==
    \A h \in Registered(g) :
        kPmLogFlag_Overridden \notin Ctx(g, h).flags
            => Ctx(g, h).flags = g.globalContext.flags

\* the step from g to g2 keeps the flags of every context marked Overridden
\* and the level of every context
KeepsOverriddenAndLevels(g, g2) ==
    \A h \in AllContexts :
        /\ Ctx(g2, h).enabledLevel = Ctx(g, h).enabledLevel
        /\ kPmLogFlag_Overridden \in Ctx(g, h).flags
              => Ctx(g2, h).flags = Ctx(g, h).flags

\* process p takes a step of the loop of the loadconf command
PropagationStep(p) ==
    /\ pc[p] \in {"cmd_loop", "cmd_copy"}
    /\ pc'[p] \in {"cmd_loop", "cmd_copy"}
    /\ fr'[p] # fr[p]

\* C16: when the loadconf command completes, every registered context not
\* marked Overridden has the global context's flags, and each step of the
\* propagation loop leaves the flags of every context marked Overridden and
\* the level of every context unchanged
C16_ReloadPropagates ==
    [][\A p \in Procs :
          /\ (ReloadComplete(p) /\ pc'[p] = "ret") => FlagsPropagated(G(p))
          /\ PropagationStep(p)
                => KeepsOverriddenAndLevels(G(p), regs'[RegOf(p)])]_vars

\* the first half of C16 for a reload during which no other process takes a
\* step
C16_UndisturbedCompletion ==
    [][\A p \in Procs :
          (ReloadComplete(p) /\ Undisturbed(p) /\ pc'[p] = "ret")
              => FlagsPropagated(G(p))]_vars

----------------------------------------------------------------------------
(* Truncation                                                              *)

\* the text a logging call with the arguments a was asked to log
TextAsked(op, a) ==
    IF op = "PmLogString_"
    THEN (IF a.kvpairs # NullStr THEN a.kvpairs ELSE <<"{", "}">>)
             \o <<" ">> \o (IF a.message # NullStr THEN a.message ELSE << >>)
    ELSE IF op = "_PmLogMsgKV" /\ a.kv_count = 0
    THEN <<"{", "}", " ">> \o a.fmt
    ELSE a.fmt

\* the lines process p is handing or has handed to PrvLogWrite
LinesHanded(p) ==
    IF pc[p] = "log_write" THEN {fr[p].s}
    ELSE IF pc[p] = "ret" /\ result[p].op \in LogOps \cup {"PmLogPrint_"}
    THEN {result[p].syslog[i].s : i \in 1..Len(result[p].syslog)}
    ELSE {}

\* the excerpts of its input that the call of process p printed
ExcerptsPrinted(p) ==
    IF pc[p] = "log_write" THEN {fr[p].excerpts[i] : i \in 1..Len(fr[p].excerpts)}
    ELSE IF pc[p] = "ret" /\ result[p].op \in LogOps \cup {"PmLogPrint_"}
    THEN {result[p].excerpts[i] : i \in 1..Len(result[p].excerpts)}
    ELSE {}

----------------------------------------------------------------------------
(* Context names                                                           *)

AllowedNameChars == UpperCase \cup LowerCase \cup DigitChars \cup {".", "_", "-"}

\* the rule for names: the two reserved names, or 1 to 31 allowed characters
NameRule(name) ==
    \/ name \in {kPmLogGlobalContextName, kPmLogDefaultLibContextName}
    \/ /\ Len(name) \in 1..31
       /\ \A i \in 1..Len(name) : name[i] \in AllowedNameChars

\* process p enters PmLogGetContext or PmLogFindContext in this step
NameCallStep(p) ==
    /\ pc[p] = "idle"
    /\ pc'[p] \in {"ret", "gc_lock", "fc_lock"}
    /\ pc'[p] = "ret" => result'[p].op \in {"GetContext", "FindContext"}

\* the name the call that p enters was given
NameGiven(p) == IF pc'[p] = "ret" THEN result'[p].name ELSE fr'[p].name

\* C22: in a process with a usable registry PrvValidateContextName accepts
\* the global and the library context name and every name of 1 to 31
\* characters from [A-Za-z0-9._-]; PmLogGetContext and PmLogFindContext
\* return InvalidContextName and a null handle for every other name and
\* leave the registry as it is
C22_NameValidation ==
    [][\A p \in Procs :
          (NameCallStep(p) /\ gGlobalsP[p] # "NULL")
              => /\ PrvValidateContextName(NameGiven(p)) =
                       (IF NameRule(NameGiven(p)) THEN "None"
                        ELSE "InvalidContextName")
                 /\ IF NameRule(NameGiven(p))
                    THEN pc'[p] # "ret"
                    ELSE /\ pc'[p] = "ret"
                         /\ result'[p].err = "InvalidContextName"
                         /\ result'[p].handle = NullH
                         /\ regs' = regs]_vars

\* a name of 32 characters was refused by PmLogGetContext in a registry where
\* the name of 31 characters is registered
C22_Witness ==
    \E p \in Procs :
        /\ pc[p] = "ret"
        /\ result[p].op = "GetContext"
        /\ Len(result[p].name) = PMLOG_MAX_CONTEXT_NAME_LEN + 1
        /\ result[p].err = "InvalidContextName"
        /\ \E h \in Registered(G(p)) :
              Len(Ctx(G(p), h).component) = PMLOG_MAX_CONTEXT_NAME_LEN

----------------------------------------------------------------------------
(* Enumeration of the contexts                                             *)

\* process p, whose registry is usable, calls op and returns in this step
DirectCall(p, op) ==
    /\ pc[p] = "idle"
    /\ pc'[p] = "ret"
    /\ gGlobalsP[p] # "NULL"
    /\ result'[p].op = op

\* C23: in a process with a usable registry PmLogGetNumContexts yields
\* 1 + numUserContexts; PmLogGetIndContext yields the global context for the
\* index 0, the context in the i-th slot for 1 <= i <= numUserContexts, and
\* InvalidContextIndex with a null handle for every other index; the slots
\* are filled in the order of creation, the context created as number n
\* being the one the index n denotes
C23_Enumeration ==
    [][\A p \in Procs :
          /\ DirectCall(p, "GetNumContexts")
                => /\ result'[p].err = "None"
                   /\ result'[p].n = 1 + G(p).numUserContexts
          /\ DirectCall(p, "GetIndContext")
                => IF result'[p].n = 0
                   THEN /\ result'[p].err = "None"
                        /\ result'[p].handle = GlobalH
                   ELSE IF result'[p].n \in 1..G(p).numUserContexts
                   THEN /\ result'[p].err = "None"
                        /\ result'[p].handle = UserH(result'[p].n - 1)
                   ELSE /\ result'[p].err = "InvalidContextIndex"
                        /\ result'[p].handle = NullH
          /\ (pc[p] = "gc_add" /\ pc'[p] # pc[p])
                => /\ regs'[RegOf(p)].numUserContexts = G(p).numUserContexts + 1
                   /\ GetIndContextResult(regs'[RegOf(p)],
                                          regs'[RegOf(p)].numUserContexts).handle
                         = fr'[p].theContextP]_vars

\* with two user contexts registered, PmLogGetIndContext has returned the
\* second one for the index 2
C23_Witness ==
    \E p \in Procs :
        /\ pc[p] = "ret"
        /\ result[p].op = "GetIndContext"
        /\ result[p].n = 2
        /\ result[p].err = "None"
        /\ result[p].handle = UserH(1)
        /\ G(p).numUserContexts = 2

----------------------------------------------------------------------------
(* The library context of a process                                        *)

\* PmLogSetLibContext of process p, whose registry is usable, returns in this
\* step
SetLibContextReturns(p) ==
    /\ pc[p] \in {"idle", "sl_unlock"}
    /\ pc'[p] = "ret"
    /\ gGlobalsP[p] # "NULL"
    /\ result'[p].op = "SetLibContext"

\* C24: in a process with a usable registry PmLogSetLibContext(h) stores h as
\* the library context of the process iff h is the global context or a user
\* context registered at the time, and otherwise (NULL included) keeps the
\* value stored before; the stored value is always the initial default or a
\* context registered in the registry of the process
C24_LibContext ==
    [][\A p \in Procs :
          /\ SetLibContextReturns(p)
                => libProcessContext'[p] =
                      (IF result'[p].handle \in Registered(G(p))
                       THEN result'[p].handle
                       ELSE libProcessContext[p])
          /\ gGlobalsP'[p] # "NULL"
                => libProcessContext'[p]
                      \in {NullH} \cup Registered(regs'[RegOf(p)])]_vars

\* a process that had stored a registered user context has called
\* PmLogSetLibContext with a slot that is not registered and kept the value
C24_Witness ==
    \E p \in Procs :
        /\ pc[p] = "ret"
        /\ result[p].op = "SetLibContext"
        /\ result[p].err = "Rejected"
        /\ result[p].handle \notin Registered(G(p)) \cup {NullH}
        /\ libProcessContext[p] \in Registered(G(p)) \ {GlobalH}

----------------------------------------------------------------------------
(* The console echo                                                        *)

\* TRUE iff level lies in the window min..max
InWindow(level, min, max) == min =< level /\ level =< max

\* C25: a line written at the level L on a context with LogToConsole goes to
\* stderr iff stdErrMinLevel <= L <= stdErrMaxLevel and to stdout iff
\* stdOutMinLevel <= L <= stdOutMaxLevel, each stream on its own; without
\* LogToConsole it goes to neither; syslog receives the line in every case
C25_ConsoleMirroring ==
    [][\A p \in Procs :
          (pc[p] = "log_write" /\ pc'[p] = "ret")
              => LET c == G(p).consoleConf
                     toConsole == kPmLogFlag_LogToConsole
                                     \in Ctx(G(p), fr[p].contextP).flags
                 IN /\ ("stderr" \in result'[p].console)
                         <=> (toConsole /\ InWindow(fr[p].level, c.stdErrMinLevel,
                                                    c.stdErrMaxLevel))
                    /\ ("stdout" \in result'[p].console)
                         <=> (toConsole /\ InWindow(fr[p].level, c.stdOutMinLevel,
                                                    c.stdOutMaxLevel))
                    /\ result'[p].console \subseteq {"stderr", "stdout"}
                    /\ Len(result'[p].syslog) = 1
                    /\ result'[p].syslog[1].s = fr[p].s
                    /\ result'[p].syslog[1].level = fr[p].level]_vars

\* a line was echoed on both streams, and a line with LogToConsole set was
\* echoed on neither
C25_Witness ==
    /\ \E p \in Procs :
          /\ pc[p] = "ret"
          /\ result[p].op = "PmLogString_"
          /\ result[p].console = {"stderr", "stdout"}
    /\ \E q \in Procs :
          /\ pc[q] = "ret"
          /\ result[q].op = "PmLogString_"
          /\ result[q].syslog # << >>
          /\ result[q].console = {}
          /\ kPmLogFlag_LogToConsole \in G(q).globalContext.flags

----------------------------------------------------------------------------
(* errno across PrvLogWrite *)

\* p is inside PrvLogWrite: about to start it, or in the loadconf command
InWrite(p) == pc[p] = "log_write" \/ fr[p].cmd

\* p leaves PrvLogWrite in this step
WriteReturns(p) == InWrite(p) /\ pc'[p] = "ret"

\* errno of p when it entered the PrvLogWrite it is in
ErrnoOnEntry(p) == IF pc[p] = "log_write" THEN errno[p] ELSE fr[p].savedErrNo

\* C26: PrvLogWrite restores errno on every path: when a process leaves
\* PrvLogWrite, after an ordinary line, a line mirrored to the console or
\* the loadconf command with its configuration reload, its errno is the
\* value it had when it entered; the value on entry is kept while the
\* command runs, whatever the reload leaves in errno.
C26_ErrnoRestored ==
    [][\A p \in Procs :
          /\ WriteReturns(p) => errno'[p] = ErrnoOnEntry(p)
          /\ (InWrite(p) /\ fr'[p].cmd) =>
                fr'[p].savedErrNo = ErrnoOnEntry(p)]_vars

\* a process that entered PrvLogWrite with a nonzero errno has finished the
\* loadconf command, which read a configuration entry, and its errno is
\* nonzero
C26_Witness ==
    \E p \in Procs :
        /\ pc[p] = "ret"
        /\ result[p].stage = "HandleLogLibCommand"
        /\ errno[p] # 0
        /\ cfgLeft[p] < MaxCfgEntries

----------------------------------------------------------------------------
(* Level labels *)

CanonicalLabels == {"none", "emerg", "alert", "crit", "err", "warning",
                    "notice", "info", "debug"}

CanonicalLevels == kPmLogLevel_None..kPmLogLevel_Debug

\* C27: label round trip: PmLogStringToLevel finds a level for exactly the
\* nine canonical labels and PmLogLevelToString of that level is the label
\* again; PmLogLevelToString finds a label for exactly the levels -1..7 and
\* PmLogStringToLevel of that label is the level again; every other label
\* or level is not found.
C27_LabelRoundTrip ==
    \A p \in Procs :
        /\ (pc[p] = "ret" /\ result[p].op = "PmLogStringToLevel") =>
              /\ result[p].out.found <=> result[p].levelStr \in CanonicalLabels
              /\ result[p].back # NoBack =>
                    /\ result[p].back.out.found
                    /\ result[p].back.out.s = result[p].levelStr
        /\ (pc[p] = "ret" /\ result[p].op = "PmLogLevelToString") =>
              /\ result[p].out.found <=> result[p].level \in CanonicalLevels
              /\ result[p].back # NoBack =>
                    /\ result[p].back.out.found
                    /\ result[p].back.out.n = result[p].level

\* one process took "warning" to its level and back, another took the level
\* of "none" to its label and back
C27_Witness ==
    \E p, q \in Procs :
        /\ pc[p] = "ret" /\ result[p].op = "PmLogStringToLevel"
        /\ result[p].levelStr = "warning"
        /\ result[p].back # NoBack
        /\ pc[q] = "ret" /\ result[q].op = "PmLogLevelToString"
        /\ result[q].level = kPmLogLevel_None
        /\ result[q].back # NoBack

----------------------------------------------------------------------------
(* Lock discipline *)

\* p takes this step
Acts(p) == pc'[p] # pc[p] \/ fr'[p] # fr[p] \/ result'[p] # result[p]

\* C28: every mutation of the shared registry is performed while the
\* mutating process holds the registry lock: a step that changes the
\* segment is taken by a process that owns the lock.
C28_MutationsUnderLock ==
    [][regs'[ShmId] # regs[ShmId] =>
          \E p \in lockHeld : Acts(p)]_vars

\* p is between public calls, or has just been handed a result
Returned(p) == pc[p] \in {"idle", "ret"}

\* C29: lock/unlock pairing: every operation that acquires the registry
\* lock releases it before it returns, on every exit path: a process that
\* has returned from the attach, PmLogGetContext, PmLogFindContext,
\* PmLogSetLibContext or PmLogSetDevMode does not hold the registry lock.
C29_LockReleased == \A p \in Procs : Returned(p) => p \notin lockHeld

\* the pairing for the processes whose attach mapped the segment
C29_ReleasedOnceMapped ==
    \A p \in Procs :
        (Returned(p) /\ gGlobalsP[p] # "defaultSet") => p \notin lockHeld

----------------------------------------------------------------------------
(* Progress *)

\* p is at a lockf call for the registry lock
AtLock(p) == pc[p] \in {"init_lock", "gc_lock", "fc_lock"}

\* p is inside PmLogGetContext or PmLogFindContext
InLookup(p) ==
    pc[p] \in {"gc_lock", "gc_scan", "gc_add", "gc_name", "gc_defaults",
               "gc_unlock", "fc_lock", "fc_scan", "fc_unlock"}

\* C30: under fair scheduling, with processes attaching and calling
\* PmLogGetContext and PmLogFindContext concurrently, including processes
\* whose attach aborts because shmget or shmat fails, every call that waits
\* for the registry lock eventually gets past it and every lookup
\* eventually returns.
C30_Progress ==
    \A p \in Procs :
        /\ AtLock(p) ~> ~AtLock(p)
        /\ InLookup(p) ~> ~InLookup(p)

\* the same progress in the behaviours in which no process is ever back in
\* its program while it owns the lock
C30_ProgressUnlessKept ==
    \/ <>(\E q \in Procs : Returned(q) /\ q \in lockHeld)
    \/ C30_Progress

----------------------------------------------------------------------------
(* The lock and the logging path *)

\* p formats a line, prints a diagnostic or writes a line in this step
LogPathStep(p) ==
    \/ LogCallStep(p)
    \/ pc[p] = "log_write" /\ pc'[p] # "log_write"

\* C31: the registry lock is never held across the formatting or dispatch
\* path: no process formats a message line, prints to the system log or
\* writes to a console stream while it holds the registry lock.
C31_NoLockWhileLogging ==
    [][\A p \in Procs : LogPathStep(p) => p \notin lockHeld]_vars

\* the same for the processes whose attach mapped the segment
C31_NoLockOnceMapped ==
    [][\A p \in Procs :
          (LogPathStep(p) /\ gGlobalsP[p] # "defaultSet")
              => p \notin lockHeld]_vars

----------------------------------------------------------------------------
(* Context creation seen by other callers *)

\* a process is creating user context i of the segment and has not yet
\* written its name, or its level and flags
BeingCreated(i) ==
    \E p \in Procs :
        /\ RegOf(p) = ShmId
        /\ pc[p] \in {"gc_name", "gc_defaults"}
        /\ fr[p].theContextP = UserH(i)

\* C32: context creation is never observed half-done: in every state in
\* which the context count of the segment includes a slot, so that
\* PmLogGetNumContexts and PmLogGetIndContext, PmLogSetLibContext or a name
\* scan can reach it, the slot already carries its name and its inherited
\* level and flags.
C32_CreationNeverHalfDone ==
    \A i \in 0..(regs[ShmId].numUserContexts - 1) : ~BeingCreated(i)

\* the creator's defaults overwrite nothing that was written to the slot
\* since it was counted: the slot is as zero-filled when they are copied
C32_NoLostWrite ==
    [][\A p \in Procs :
          (pc[p] = "gc_defaults" /\ pc'[p] # "gc_defaults" /\ RegOf(p) = ShmId)
              => /\ Ctx(G(p), fr[p].theContextP).enabledLevel
                       = ZeroContext.enabledLevel
                 /\ Ctx(G(p), fr[p].theContextP).flags = ZeroContext.flags]_vars

----------------------------------------------------------------------------
(* Mutual exclusion between callers *)

\* p is inside the locked region of PmLogGetContext
InGetContextRegion(p) ==
    pc[p] \in {"gc_scan", "gc_add", "gc_name", "gc_defaults", "gc_unlock"}

\* C33: mutual exclusion of the registry's critical sections holds between
\* any two callers, two threads of the same process included: no two
\* callers that took the lock are inside the locked region of
\* PmLogGetContext at once, and no name is registered twice.
C33_MutualExclusion ==
    /\ \A p, q \in Procs :
          (p # q /\ lock_fd[p] /\ lock_fd[q])
              => ~(InGetContextRegion(p) /\ InGetContextRegion(q))
    /\ \A h1, h2 \in Registered(regs[ShmId]) :
          h1 # h2 => Ctx(regs[ShmId], h1).component
                        # Ctx(regs[ShmId], h2).component

\* no name is registered twice in the segment once every creation is
\* complete
C33_NoNameTwice ==
    (\A p \in Procs : ~InGetContextRegion(p)) =>
        \A h1, h2 \in Registered(regs[ShmId]) :
            h1 # h2 => Ctx(regs[ShmId], h1).component
                          # Ctx(regs[ShmId], h2).component

----------------------------------------------------------------------------
(* The first-time configuration load and later attaches *)

\* q initialized the segment and its first-time configuration load has not
\* returned yet
InFirstLoad(q) ==
    /\ needInit[q]
    /\ ~fr[q].cmd
    /\ \/ pc[q] \in {"init_unlock", "cfg_idle", "cfg_level", "cfg_flags",
                     "cfg_setflag"}
       \/ InLookup(q) /\ fr[q].cont \in {"cfg_level", "cfg_setflag"}

\* p, in its constructor, finds the signature of the segment equal to
\* PMLOG_SIGNATURE in this step
AttachFindsMagic(p) ==
    /\ pc[p] = "init_sig"
    /\ pc'[p] # "init_sig"
    /\ SignatureBranch(regs[ShmId].signature) = "access"

\* C34: no process observes an initialized but not yet configured registry:
\* whenever a process attaches and finds the signature equal to
\* PMLOG_SIGNATURE, the first-time configuration load of the process that
\* initialized the segment has completed.
C34_ConfiguredBeforeAttach ==
    [][\A p \in Procs :
          AttachFindsMagic(p) => \A q \in Procs : ~InFirstLoad(q)]_vars

----------------------------------------------------------------------------
(* The Overridden mark of new contexts *)

\* p completes the creation of a context in this step
CreationCompletes(p) == pc[p] = "gc_defaults" /\ pc'[p] = "gc_unlock"

\* C35: a context carries kPmLogFlag_Overridden only if flags were set on
\* that very context: a context newly created by PmLogGetContext does not
\* carry the mark, whatever the flags of the ancestor or of the global
\* context it inherits from.
C35_NewContextNotOverridden ==
    [][\A p \in Procs :
          CreationCompletes(p) =>
              kPmLogFlag_Overridden
                  \notin Ctx(regs'[RegOf(p)], fr[p].theContextP).flags]_vars

----------------------------------------------------------------------------
(* The key list of the counted-key-value calls *)

\* the number of keys that the key list declares: its keys are separated by
\* SOH
KeysDeclared(check_keywords) ==
    1 + Cardinality({i \in 1..Len(check_keywords) : check_keywords[i] = SOH})

\* the key list of a declares as many keys as the check format of a holds
\* conversions, one less with the with-clock flag
KeyListAgrees(a) ==
    /\ a.check_keywords # NullStr
    /\ a.check_formats # NullStr
    /\ Conversions(a.check_formats) =
           IF kPmLogValidateFormatFlag_LogWithClock \in a.flags
           THEN KeysDeclared(a.check_keywords) + 1
           ELSE KeysDeclared(a.check_keywords)

\* C36: key/format agreement on the key list: every counted-key-value call
\* at a non-debug level with kv_count > 0 that is accepted declares in its
\* key list as many keys as its check format holds conversions (adjusted by
\* one for the with-clock variant); a call whose key list declares another
\* number of keys is not handed to PrvLogWrite.
C36_KeyListAgreement ==
    \A p \in Procs :
        (pc[p] = "log_write" /\ fr[p].op = "_PmLogMsgKV"
            /\ fr[p].args.level # kPmLogLevel_Debug /\ fr[p].args.kv_count > 0)
            => KeyListAgrees(fr[p].args)

----------------------------------------------------------------------------
(* validate_json_string *)

\* a call of validate_json_string has returned to p
JsonReturned(p) == pc[p] = "ret" /\ result[p].op = "validate_json_string"

\* the boundaries of the call of p that end within json_str and whose text
\* parses
GoodEnds(p) == {e \in result[p].parses : e =< BUFFER_LEN - 1}

\* a boundary of the call of p ends past the last byte of json_str
HasLateBoundary(p) ==
    \E e \in BoundaryEnds(result[p].kvpairs, SearchStr(result[p].with_tailing)) :
        e > BUFFER_LEN - 1

\* C37: validation of an embedded object with trailing text, given the
\* answers of the parser: the payload is accepted iff a closing boundary
\* ("}" or, in the counted variant, "} ") ends at offset 1023 at most and the
\* text up to and including it parses; the first such text is the one
\* accepted; a payload that is not accepted is refused as too much data when
\* a boundary ends past offset 1023 and as malformed (the error of the caller
\* untouched) otherwise.
C37_ValidateJson ==
    \A p \in Procs :
        JsonReturned(p) =>
            /\ result[p].out.ok <=> GoodEnds(p) # {}
            /\ result[p].out.ok =>
                   /\ result[p].out.upto = Min(GoodEnds(p))
                   /\ result[p].out.logErr = result[p].logErr
            /\ (~result[p].out.ok /\ HasLateBoundary(p)) =>
                   result[p].out.logErr = "TooMuchData"
            /\ (~result[p].out.ok /\ ~HasLateBoundary(p)) =>
                   result[p].out.logErr = result[p].logErr
            /\ result[p].real =>
                   (result[p].out.ok <=>
                        validate_json_string(result[p].kvpairs,
                                             result[p].with_tailing))

\* a payload whose second boundary ends at offset 1023 exactly and is the
\* first whose text parses was accepted
C37_Witness ==
    \E p \in Procs :
        /\ JsonReturned(p)
        /\ result[p].out.ok
        /\ result[p].out.upto = BUFFER_LEN - 1
        /\ Cardinality(BoundaryEnds(result[p].kvpairs,
                                    SearchStr(result[p].with_tailing))) = 2

\* a payload with a boundary that does not parse and a later one past offset
\* 1023 was refused as too much data
C37_WitnessTooMuch ==
    \E p \in Procs :
        /\ JsonReturned(p)
        /\ ~result[p].out.ok
        /\ result[p].out.logErr = "TooMuchData"
        /\ \E e \in BoundaryEnds(result[p].kvpairs,
                                 SearchStr(result[p].with_tailing)) :
               e =< BUFFER_LEN - 1

----------------------------------------------------------------------------
(* The truncation warning *)

\* the text that the call op of a asks for does not fit the line buffer
WouldTruncate(op, a) == Len(TextAsked(op, a)) > BUFFER_LEN - 1

\* C38: whenever line assembly cut the text (key-value text plus free text
\* not fitting the 1024-byte buffer), in PmLogString_ as well as in
\* _PmLogMsgKV (also when the "{} " prefix was prepended), a truncation
\* warning with an excerpt of the text was printed.
C38_TruncationWarned ==
    \A p \in Procs :
        (pc[p] = "log_write" /\ fr[p].op \in LogOps
            /\ WouldTruncate(fr[p].op, fr[p].args))
            => ExcerptsPrinted(p) # {}

\* _PmLogMsgKV prints the warning when the format alone does not fit the
\* buffer, with or without the prefix
C38_WarnedOnLongFormat ==
    \A p \in Procs :
        (pc[p] = "log_write" /\ fr[p].op = "_PmLogMsgKV"
            /\ Len(fr[p].args.fmt) > BUFFER_LEN - 1)
            => ExcerptsPrinted(p)
                   = {strtruncate_and_escape(
                          Vsnprintf(IF fr[p].args.kv_count = 0
                                    THEN BUFFER_LEN - 3 ELSE BUFFER_LEN,
                                    fr[p].args.fmt))}

\* a line of _PmLogMsgKV that was cut without a warning has the "{} "
\* prefix and a format that fits the buffer on its own
C38_MsgKVSilentOnlyWithPrefix ==
    \A p \in Procs :
        (pc[p] = "log_write" /\ fr[p].op = "_PmLogMsgKV"
            /\ WouldTruncate(fr[p].op, fr[p].args) /\ ExcerptsPrinted(p) = {})
            => /\ fr[p].args.kv_count = 0
               /\ Len(fr[p].args.fmt) \in (BUFFER_LEN - 3)..(BUFFER_LEN - 1)

\* PmLogString_ never prints a warning for a line it hands to PrvLogWrite
C38_StringNeverWarns ==
    \A p \in Procs :
        (pc[p] = "log_write" /\ fr[p].op = "PmLogString_")
            => ExcerptsPrinted(p) = {}

----------------------------------------------------------------------------
(* The empty message id *)

\* a structured call with the empty message id has returned to p: the level
\* is not the debug level and the call got past the level gate
EmptyIdReturned(p) ==
    /\ pc[p] = "ret"
    /\ result[p].op \in LogOps
    /\ result[p].args.msgid = << >>
    /\ result[p].args.level # kPmLogLevel_Debug
    /\ result[p].stage \notin {"PrvResolveContext", "PrvCheckContext"}

\* the checks of the key-value arguments that come before the test of the
\* empty id refuse the call op of a
RefusedBeforeEmptyTest(op, a) ==
    IF op = "PmLogString_"
    THEN a.kvpairs # NullStr /\ ~validate_json_string(a.kvpairs, FALSE)
    ELSE a.kv_count # 0
             /\ (~validate_keys(a.kv_count, a.check_keywords)
                    \/ ~validate_format(a.flags, a.kv_count, a.check_formats))

\* no line with the empty message id is on its way to the sink
EmptyIdNeverWritten ==
    \A p \in Procs :
        (pc[p] = "log_write" /\ fr[p].op \in LogOps
            /\ fr[p].args.level # kPmLogLevel_Debug)
            => fr[p].args.msgid # << >>

\* C39 as stated: a structured (non-debug, level-enabled) call with the empty
\* message id is never handed to the sink; it prints the EMPTY_MSGID
\* diagnostic after line assembly and returns InvalidFormat, in PmLogString_
\* and in _PmLogMsgKV.
C39_EmptyMsgId ==
    /\ EmptyIdNeverWritten
    /\ \A p \in Procs :
           EmptyIdReturned(p) =>
               /\ result[p].err = "InvalidFormat"
               /\ result[p].syslog = << >>
               /\ result[p].stage = "EmptyMsgID"
               /\ result[p].excerpts # << >>

\* C39 amended: a structured (non-debug, level-enabled) call with the empty
\* message id is never handed to the sink and returns InvalidFormat, in
\* PmLogString_ and in _PmLogMsgKV; it prints the EMPTY_MSGID diagnostic
\* after line assembly unless a check of its key-value arguments that comes
\* first (the JSON check of PmLogString_, the key and format checks of
\* _PmLogMsgKV) has refused it with a diagnostic of its own.
C39_EmptyMsgIdUnlessRefusedBefore ==
    /\ EmptyIdNeverWritten
    /\ \A p \in Procs :
           EmptyIdReturned(p) =>
               /\ result[p].err = "InvalidFormat"
               /\ result[p].syslog = << >>
               /\ result[p].console = {}
               /\ IF RefusedBeforeEmptyTest(result[p].op, result[p].args)
                  THEN result[p].stage
                           \in {"validate_json_string", "validate_keys",
                                "validate_format"}
                  ELSE /\ result[p].stage = "EmptyMsgID"
                       /\ result[p].excerpts # << >>

\* both calls have printed EMPTY_MSGID and returned InvalidFormat
C39_Witness ==
    \A op \in LogOps :
        \E p \in Procs :
            /\ EmptyIdReturned(p)
            /\ result[p].op = op
            /\ result[p].stage = "EmptyMsgID"
            /\ result[p].err = "InvalidFormat"

----------------------------------------------------------------------------
(* The signal mask across PrvLogWrite *)

\* p is inside PrvLogWrite
InWriteSteps(p) == pc[p] \in {"log_write", "syslog", "unblock_signals"}

\* the call of syslog by p is in progress
SinkInProgress(p) == pc[p] = "syslog"

\* the signal mask of p when it entered the PrvLogWrite it is in
MaskOnEntry(p) == IF pc[p] = "log_write" THEN sigmask[p] ELSE fr[p].old_set

\* C40: signal masking of the write: the steps are block all signals, call
\* the sink, restore the mask, in this order; in every state in which the
\* sink call is in progress every signal is blocked for the calling thread;
\* and when the write returns the signal mask of the thread is the mask it
\* had on entry.
C40_SignalMasking ==
    /\ [](\A p \in Procs : SinkInProgress(p) => sigmask[p] = Signals)
    /\ [][\A p \in Procs :
             /\ (~SinkInProgress(p) /\ SinkInProgress(p)') =>
                   (pc[p] = "log_write" /\ sigmask'[p] = Signals)
             /\ (SinkInProgress(p) /\ ~SinkInProgress(p)') =>
                   /\ pc'[p] = "unblock_signals"
                   /\ sigmask'[p] = Signals
                   /\ Len(fr'[p].sent) = 1
             /\ (InWriteSteps(p) /\ pc'[p] = "ret") =>
                   /\ pc[p] = "unblock_signals"
                   /\ sigmask'[p] = MaskOnEntry(p)
                   /\ result'[p].syslog = fr[p].sent
             /\ (InWriteSteps(p) /\ InWriteSteps(p)' /\ pc'[p] # "log_write") =>
                   fr'[p].old_set = MaskOnEntry(p)]_vars

\* a thread that entered the write with SIGINT blocked and SIGTERM not has
\* written its line and has that mask again
C40_Witness ==
    \E p \in Procs :
        /\ pc[p] = "ret"
        /\ result[p].stage = "PrvLogWrite"
        /\ Len(result[p].syslog) = 1
        /\ sigmask[p] = {"SIGINT"}

====
